---- MODULE Spec2Model ----
(***************************************************************************)
(* Model of the pyflow workflow engine (src/pyflow_core.py): task handles,  *)
(* the invocation table, DAG construction and the parallel scheduler loop   *)
(* of Workflow.run with its worker pool.                                    *)
(***************************************************************************)
EXTENDS Integers, Sequences, FiniteSets, TLC

\* ---------------------------------------------------------------- bounds
MaxTasks == 3       \* distinct fingerprints ever constructed
MaxArgs == 1        \* positional arguments of one invocation
MaxDirect == 1      \* fingerprints constructed that the invocation table lacks
MaxRuns == 2        \* calls of run
MaxValue == 2       \* user functions return a value in 1..MaxValue
max_workers == 1    \* the pool size given to Workflow(...)
MaxItems == 2       \* items of a list or tuple passed as an argument
MaxWrappers == 4    \* functions decorated with Workflow.task
MaxInvocations == 2 \* calls of _run_task_in_process examined together
MaxHandles == 3     \* handles returned by the factories of one workflow

FuncNames == {"f", "g"}
CallNames == {"f"}   \* the function of the calls made after the workflow is set up
KwNames == {"k"}
Workflows == {"self", "other"}
ProbeKwNames == {"j", "k"}
FuncDefs == {"first", "second"}   \* def statements that give a function its name
Values == 1..MaxValue
None == 0

\* ---------------------------------------------------------------- helpers
EmptyMap == [x \in {} |-> None]

MapPut(m, k, v) == [x \in (DOMAIN m) \cup {k} |-> IF x = k THEN v ELSE m[x]]

Range(s) == {s[i] : i \in DOMAIN s}

\* iteration order of a Python set: some fixed order
RECURSIVE SetToSeq(_)
SetToSeq(S) ==
  IF S = {} THEN <<>>
  ELSE LET x == CHOOSE y \in S : TRUE IN <<x>> \o SetToSeq(S \ {x})

\* ---------------------------------------------------------------- handles
\* An argument is a handle or a one-level list holding a handle; the nested
\* handle is kept by its id, the only field the engine reads of it.
HandleArg(id) == [kind |-> "handle", ref |-> id]
ListArg(id) == [kind |-> "list", items |-> <<HandleArg(id)>>]

ArgsOver(ids) == {HandleArg(i) : i \in ids} \cup {ListArg(i) : i \in ids}

RECURSIVE SeqsUpTo(_, _)
SeqsUpTo(S, n) ==
  IF n = 0 THEN {<<>>}
  ELSE LET shorter == SeqsUpTo(S, n - 1)
       IN shorter \cup {Append(s, x) : s \in {t \in shorter : Len(t) = n - 1}, x \in S}

\* the positional arguments drawn for an invocation: handles and lists
PosArgsOver(ids) == SeqsUpTo(ArgsOver(ids), MaxArgs)

\* the keyword arguments drawn for an invocation, as call_kwargs keeps them:
\* tuple(sorted(kwargs.items())); the values drawn are handles
KwargsOver(ids) ==
  {<<>>} \cup {<<[key |-> k, value |-> HandleArg(i)]>> : k \in KwNames, i \in ids}

\* the digest taken as collision-free: the fingerprint stands for its pre-image
generate_id(name, call_args, call_kwargs) ==
  [name |-> name, args |-> call_args, kwargs |-> call_kwargs]

TaskOutput(wf, name, call_args, call_kwargs) ==
  [workflow |-> wf, task_func |-> name, call_args |-> call_args,
   call_kwargs |-> call_kwargs, id |-> generate_id(name, call_args, call_kwargs)]

\* the handles an argument contributes: itself, or the handles among the items of a
\* list or tuple
ArgDependencies(arg) ==
  IF arg.kind = "handle" THEN {arg.ref}
  ELSE IF arg.kind \in {"list", "tuple"}
  THEN {arg.items[i].ref : i \in {n \in DOMAIN arg.items : arg.items[n].kind = "handle"}}
  ELSE {}

\* a scan that looks at the arguments themselves and not inside lists and tuples
get_dependencies_shallow(h) ==
  {h.call_args[i].ref : i \in {n \in DOMAIN h.call_args : h.call_args[n].kind = "handle"}}
  \cup {h.call_kwargs[i].value.ref :
          i \in {n \in DOMAIN h.call_kwargs : h.call_kwargs[n].value.kind = "handle"}}

get_dependencies(h) ==
  UNION {ArgDependencies(h.call_args[i]) : i \in DOMAIN h.call_args}
  \cup UNION {ArgDependencies(h.call_kwargs[i].value) : i \in DOMAIN h.call_kwargs}

\* ---------------------------------------------------------------- fingerprint text
\* Python values as the fingerprint code sees them: the kind and the content
IntVal(n) == [kind |-> "int", val |-> n]
StrVal(s) == [kind |-> "str", val |-> s]
ListVal(items) == [kind |-> "list", items |-> items]
TupleVal(items) == [kind |-> "tuple", items |-> items]
\* a dict: its items, [key, value] with string keys, in insertion order
DictVal(items) == [kind |-> "dict", items |-> items]
\* a TaskOutput object met as an argument
HandleVal(h) == [kind |-> "handle", ref |-> h.id, name |-> h.task_func.name]

RECURSIVE JoinText(_, _)
JoinText(texts, sep) ==
  IF texts = <<>> THEN ""
  ELSE IF Len(texts) = 1 THEN texts[1]
  ELSE texts[1] \o sep \o JoinText(Tail(texts), sep)

Chars(s) == {SubSeq(s, i, i) : i \in 1..Len(s)}

\* s from its i-th character on, with a backslash put before every character of special
RECURSIVE EscapedFrom(_, _, _)
EscapedFrom(s, i, special) ==
  IF i > Len(s) THEN ""
  ELSE LET c == SubSeq(s, i, i)
       IN (IF c \in special THEN "\\" \o c ELSE c) \o EscapedFrom(s, i + 1, special)

Escaped(s, special) ==
  IF Chars(s) \cap special = {} THEN s ELSE EscapedFrom(s, 1, special)

\* the keyword names of the model in the order sorted() gives them
KeyOrder == <<"config", "j", "k", "task_work_dir">>

KeyRank(k) == CHOOSE i \in DOMAIN KeyOrder : KeyOrder[i] = k

\* the items left in the order they were given
unsorted(items) == items

\* sorted(items) for items with distinct keys: by key
RECURSIVE sorted(_)
sorted(items) ==
  IF items = <<>> THEN <<>>
  ELSE LET i == CHOOSE n \in DOMAIN items :
                  \A m \in DOMAIN items : KeyRank(items[n].key) <= KeyRank(items[m].key)
       IN <<items[i]>> \o sorted(SubSeq(items, 1, i - 1) \o SubSeq(items, i + 1, Len(items)))

\* json.dumps raises TypeError on x: a TaskOutput is not serializable
RECURSIVE JsonFails(_)
JsonFails(x) ==
  CASE x.kind = "handle" -> TRUE
    [] x.kind \in {"list", "tuple"} -> \E i \in DOMAIN x.items : JsonFails(x.items[i])
    [] x.kind = "dict" -> \E i \in DOMAIN x.items : JsonFails(x.items[i].value)
    [] OTHER -> FALSE

\* json.dumps(x, sort_keys=True) where it does not raise
RECURSIVE json_dumps(_)
json_dumps(x) ==
  CASE x.kind = "int" -> ToString(x.val)
    [] x.kind = "str" -> "\"" \o Escaped(x.val, {"\"", "\\"}) \o "\""
    [] x.kind \in {"list", "tuple"} ->
         "[" \o JoinText([i \in DOMAIN x.items |-> json_dumps(x.items[i])], ", ") \o "]"
    [] x.kind = "dict" ->
         LET items == sorted(x.items)
         IN "{" \o JoinText([i \in DOMAIN items |->
                               json_dumps(StrVal(items[i].key)) \o ": "
                               \o json_dumps(items[i].value)], ", ") \o "}"

\* repr(x), which str(x) gives for a container; TaskOutput.__repr__ for a handle
RECURSIVE repr(_)
repr(x) ==
  CASE x.kind = "int" -> ToString(x.val)
    [] x.kind = "str" ->
         IF "'" \in Chars(x.val) /\ "\"" \notin Chars(x.val)
         THEN "\"" \o Escaped(x.val, {"\\"}) \o "\""
         ELSE "'" \o Escaped(x.val, {"'", "\\"}) \o "'"
    [] x.kind = "list" ->
         "[" \o JoinText([i \in DOMAIN x.items |-> repr(x.items[i])], ", ") \o "]"
    [] x.kind = "tuple" ->
         IF Len(x.items) = 1 THEN "(" \o repr(x.items[1]) \o ",)"
         ELSE "(" \o JoinText([i \in DOMAIN x.items |-> repr(x.items[i])], ", ") \o ")"
    [] x.kind = "dict" ->
         "{" \o JoinText([i \in DOMAIN x.items |->
                            repr(StrVal(x.items[i].key)) \o ": "
                            \o repr(x.items[i].value)], ", ") \o "}"
    [] x.kind = "handle" -> "<TaskOutput of " \o x.name \o " (ID: " \o x.ref \o ")>"

\* hash(x) raises TypeError: a list or a dict, or a tuple that holds one
RECURSIVE Unhashable(_)
Unhashable(x) ==
  CASE x.kind \in {"list", "dict"} -> TRUE
    [] x.kind = "tuple" -> \E i \in DOMAIN x.items : Unhashable(x.items[i])
    [] OTHER -> FALSE

prep_for_hash(item) ==
  IF item.kind = "handle" THEN StrVal("<TaskOutput:" \o item.ref \o ">")
  ELSE IF item.kind \in {"list", "dict"}
  THEN IF JsonFails(item) THEN StrVal(repr(item)) ELSE StrVal(json_dumps(item))
  ELSE IF Unhashable(item) THEN StrVal(repr(item)) ELSE item

args_for_hash(call_args) ==
  TupleVal([i \in DOMAIN call_args |-> prep_for_hash(call_args[i])])

kwargs_for_hash(call_kwargs) ==
  TupleVal([i \in DOMAIN call_kwargs |->
              TupleVal(<<StrVal(call_kwargs[i].key), prep_for_hash(call_kwargs[i].value)>>)])

arg_string(call_args, call_kwargs) ==
  LET both == TupleVal(<<args_for_hash(call_args), kwargs_for_hash(call_kwargs)>>)
  IN IF JsonFails(both) THEN repr(both) ELSE json_dumps(both)

id_string(func, call_args, call_kwargs) ==
  func.name \o ":" \o arg_string(call_args, call_kwargs)

\* the digest taken as collision-free: it stands for the string it was computed from
hexdigest(s) == s

\* TaskOutput.__init__ on the arguments as the caller supplied them
TaskOutput_init(workflow, task_func, args, kwargs) ==
  LET call_kwargs == sorted(kwargs)
  IN [workflow |-> workflow, task_func |-> task_func, call_args |-> args,
      call_kwargs |-> call_kwargs,
      id |-> hexdigest(id_string(task_func, args, call_kwargs))]

\* ---------------------------------------------------------------- state
VARIABLES
  handles,            \* the fingerprints of the TaskOutput objects constructed so far
  task_calls,         \* id -> TaskOutput (the invocation table)
  task_results,       \* id -> result
  task_status,        \* id -> status
  task_dependencies,  \* id -> set of ids
  task_dependents,    \* id -> set of ids
  pc,                 \* where the driver is: idle, loop, submit, wait, process, end
  target_id,
  required_tasks,
  tasks_failed,
  tasks_completed,
  active_futures,     \* ids with a future the driver has not processed yet
  ready_to_submit,
  done,
  futures,            \* id -> the future made by executor.submit in this run
  outcome,            \* how the last call of run, or of cleanup, ended
  nruns,
  probe,              \* the handles built to examine TaskOutput on its own
  task_registry,      \* function name -> the function registered under it
  wrappers,           \* the functions decorated so far, one handle factory each
  invocations,        \* task id -> a call of _run_task_in_process examined on its own
  dirs,               \* the directories that exist
  config,             \* self.config
  links,              \* path of a symbolic link -> the path it points to
  helper_calls        \* the calls of the module's helper functions, with what each did

vars == <<handles, task_calls, task_results, task_status, task_dependencies,
          task_dependents, pc, target_id, required_tasks, tasks_failed,
          tasks_completed, active_futures, ready_to_submit, done, futures,
          outcome, nruns, probe, task_registry, wrappers, invocations, dirs,
          config, links, helper_calls>>

\* what a run of the scheduler leaves alone
aside == <<probe, task_registry, wrappers, invocations, dirs, config, links,
           helper_calls>>

runvars == <<task_results, task_status, task_dependencies, task_dependents,
             target_id, required_tasks, tasks_failed, tasks_completed,
             active_futures, ready_to_submit, done, futures>>

\* what stays as it is while something is examined apart from a run
dormant == <<handles, task_calls, runvars, pc, outcome, nruns>>

\* the same but for the position of the driver
dormant_but_pc == <<handles, task_calls, runvars, outcome, nruns>>

\* the configuration, the links and the calls of the helpers
apart == <<config, links, helper_calls>>

\* A four-task pipeline, t = f(a, k=c) with a = f(), c = g(b), b = g(): the state
\* after its factory calls, with b made by the factory or handed in from elsewhere.
PipeA == TaskOutput("self", "f", <<>>, <<>>)
PipeB == TaskOutput("self", "g", <<>>, <<>>)
PipeC == TaskOutput("self", "g", <<HandleArg(PipeB.id)>>, <<>>)
PipeT == TaskOutput("self", "f", <<HandleArg(PipeA.id)>>,
                    <<[key |-> "k", value |-> HandleArg(PipeC.id)]>>)
Pipeline == {PipeA, PipeB, PipeC, PipeT}

TableOf(S) == [i \in {h.id : h \in S} |-> CHOOSE h \in S : h.id = i]

\* the target before any call of run: a fingerprint no call has
NoTarget == [name |-> "", args |-> <<>>, kwargs |-> <<>>]

\* no call of run has been made
NoRun ==
  /\ task_results = EmptyMap
  /\ task_status = EmptyMap
  /\ task_dependencies = EmptyMap
  /\ task_dependents = EmptyMap
  /\ pc = "idle"
  /\ target_id = NoTarget
  /\ required_tasks = {}
  /\ tasks_failed = {}
  /\ tasks_completed = {}
  /\ active_futures = {}
  /\ ready_to_submit = {}
  /\ done = {}
  /\ futures = EmptyMap
  /\ outcome = [kind |-> "none", value |-> None]
  /\ nruns = 0

\* Workflow.__init__
Created ==
  /\ NoRun
  /\ handles = {}
  /\ task_calls = EmptyMap
  /\ task_registry = EmptyMap
  /\ wrappers = <<>>
  /\ probe = <<>>
  /\ invocations = EmptyMap
  /\ dirs = {}
  /\ config = DictVal(<<>>)
  /\ links = EmptyMap
  /\ helper_calls = <<>>

\* the functions of the pipeline module, decorated in the order they are written
Decorated == <<[name |-> "f", def |-> "first"], [name |-> "g", def |-> "first"]>>

\* Workflow.__init__ and the decoration of the task functions, followed or not by
\* the factory calls of the pipeline
Init ==
  /\ NoRun
  /\ \/ handles = {} /\ task_calls = EmptyMap
     \/ /\ handles = {h.id : h \in Pipeline}
        /\ \E S \in {Pipeline, Pipeline \ {PipeB}} : task_calls = TableOf(S)
  /\ wrappers = Decorated
  /\ task_registry = [n \in {Decorated[i].name : i \in DOMAIN Decorated} |->
                        Decorated[CHOOSE i \in DOMAIN Decorated : Decorated[i].name = n]]
  /\ probe = <<>>
  /\ invocations = EmptyMap
  /\ dirs = {}
  /\ config = DictVal(<<>>)
  /\ links = EmptyMap
  /\ helper_calls = <<>>

\* ---------------------------------------------------------------- building handles
CanConstruct(h) == h.id \in handles \/ Cardinality(handles) < MaxTasks

\* the handle factory returned by Workflow.task
wrapper(name, call_args, call_kwargs) ==
  LET task_output == TaskOutput("self", name, call_args, call_kwargs) IN
  /\ pc = "idle"
  /\ CanConstruct(task_output)
  /\ handles' = handles \cup {task_output.id}
  /\ task_calls' = IF task_output.id \notin DOMAIN task_calls
                   THEN MapPut(task_calls, task_output.id, task_output)
                   ELSE task_calls
  /\ UNCHANGED <<aside, runvars, pc, outcome, nruns>>

\* TaskOutput(...) called directly: a handle of this or another workflow that
\* this workflow's invocation table never saw
Construct(wf, name, call_args, call_kwargs) ==
  LET task_output == TaskOutput(wf, name, call_args, call_kwargs) IN
  /\ pc = "idle"
  /\ task_output.id \notin handles
  /\ Cardinality(handles \ DOMAIN task_calls) < MaxDirect
  /\ CanConstruct(task_output)
  /\ handles' = handles \cup {task_output.id}
  /\ UNCHANGED <<aside, runvars, task_calls, pc, outcome, nruns>>

\* ---------------------------------------------------------------- DAG builder
\* a builder that records the target and does not follow its dependencies
build_dag_target(calls, queue, visited, processed_deps, status, dependencies, dependents) ==
  IF queue = <<>> \/ Head(queue) \notin DOMAIN calls
  THEN [task_status |-> status, task_dependencies |-> dependencies,
        task_dependents |-> dependents]
  ELSE
    LET current_id == Head(queue)
        deps == get_dependencies(calls[current_id])
    IN [task_status |-> MapPut(status, current_id, "PENDING"),
        task_dependencies |-> MapPut(dependencies, current_id, deps),
        task_dependents |-> [d \in deps |-> {current_id}]]

\* a builder that records the reverse edge only for a dependency that is a known task
RECURSIVE build_dag_known_dependents(_, _, _, _, _, _, _)
build_dag_known_dependents(calls, queue, visited, processed_deps, status, dependencies, dependents) ==
  IF queue = <<>>
  THEN [task_status |-> status, task_dependencies |-> dependencies,
        task_dependents |-> dependents]
  ELSE
    LET current_id == Head(queue)
        rest == Tail(queue)
        visited2 == visited \cup {current_id}
    IN
    IF current_id \in visited
    THEN build_dag_known_dependents(calls, rest, visited, processed_deps, status,
                                    dependencies, dependents)
    ELSE IF current_id \notin DOMAIN calls
    THEN build_dag_known_dependents(calls, rest, visited2, processed_deps, status,
                                    dependencies, dependents)
    ELSE
      LET deps == get_dependencies(calls[current_id])
          known == deps \cap DOMAIN calls
          dependents2 ==
            [d \in (DOMAIN dependents) \cup known |->
               (IF d \in DOMAIN dependents THEN dependents[d] ELSE {})
               \cup (IF d \in known THEN {current_id} ELSE {})]
          added == {d \in deps : d \notin visited2 /\ d \notin processed_deps
                                 /\ d \in DOMAIN calls}
      IN build_dag_known_dependents(calls, rest \o SetToSeq(added), visited2,
                                    processed_deps \cup added,
                                    MapPut(status, current_id, "PENDING"),
                                    MapPut(dependencies, current_id, deps), dependents2)

\* the fingerprints _build_dag prints a warning about: the two prints of the
\* builder are commented out
build_dag_warnings == {}

\* Workflow._build_dag: the while loop over queue, one call per iteration
RECURSIVE build_dag(_, _, _, _, _, _, _)
build_dag(calls, queue, visited, processed_deps, status, dependencies, dependents) ==
  IF queue = <<>>
  THEN [task_status |-> status, task_dependencies |-> dependencies,
        task_dependents |-> dependents]
  ELSE
    LET current_id == Head(queue)
        rest == Tail(queue)
        visited2 == visited \cup {current_id}
    IN
    IF current_id \in visited
    THEN build_dag(calls, rest, visited, processed_deps, status, dependencies, dependents)
    ELSE IF current_id \notin DOMAIN calls
    THEN build_dag(calls, rest, visited2, processed_deps, status, dependencies, dependents)
    ELSE
      LET deps == get_dependencies(calls[current_id])
          dependents2 ==
            [d \in (DOMAIN dependents) \cup deps |->
               (IF d \in DOMAIN dependents THEN dependents[d] ELSE {})
               \cup (IF d \in deps THEN {current_id} ELSE {})]
          added == {d \in deps : d \notin visited2 /\ d \notin processed_deps
                                 /\ d \in DOMAIN calls}
      IN build_dag(calls, rest \o SetToSeq(added), visited2, processed_deps \cup added,
                   MapPut(status, current_id, "PENDING"),
                   MapPut(dependencies, current_id, deps), dependents2)

\* ---------------------------------------------------------------- Workflow.run
\* run(x) with x not a TaskOutput: handed back as it is
RunPlain(v) ==
  /\ pc = "idle"
  /\ nruns < MaxRuns
  /\ nruns' = nruns + 1
  /\ outcome' = [kind |-> "passthrough", value |-> v]
  /\ UNCHANGED <<aside, handles, task_calls, runvars, pc>>

\* a run that resets the maps before it looks at the handle's workflow
RunStartResetFirst(final_task_output) ==
  /\ pc = "idle"
  /\ nruns < MaxRuns
  /\ final_task_output.id \in handles
  /\ nruns' = nruns + 1
  /\ UNCHANGED <<aside, handles, task_calls>>
  /\ IF final_task_output.workflow # "self"
     THEN /\ outcome' = [kind |-> "ValueError", value |-> None]
          /\ task_results' = EmptyMap
          /\ task_status' = EmptyMap
          /\ task_dependencies' = EmptyMap
          /\ task_dependents' = EmptyMap
          /\ UNCHANGED <<pc, target_id, required_tasks, tasks_failed, tasks_completed,
                         active_futures, ready_to_submit, done, futures>>
     ELSE
       LET dag == build_dag(task_calls, <<final_task_output.id>>, {}, {},
                            EmptyMap, EmptyMap, EmptyMap)
           required == {tid \in DOMAIN dag.task_status : tid \in DOMAIN task_calls}
       IN
       /\ task_results' = EmptyMap
       /\ task_status' = dag.task_status
       /\ task_dependencies' = dag.task_dependencies
       /\ task_dependents' = dag.task_dependents
       /\ target_id' = final_task_output.id
       /\ required_tasks' = required
       /\ tasks_failed' = {}
       /\ tasks_completed' = {}
       /\ active_futures' = {}
       /\ ready_to_submit' = {}
       /\ done' = {}
       /\ futures' = EmptyMap
       /\ IF required = {}
          THEN /\ outcome' = [kind |-> "returned", value |-> None]
               /\ pc' = "idle"
          ELSE /\ outcome' = [kind |-> "none", value |-> None]
               /\ pc' = "loop"

\* a run that builds the DAG over the maps the earlier run left
RunStartKeepingMaps(final_task_output) ==
  /\ pc = "idle"
  /\ nruns < MaxRuns
  /\ final_task_output.id \in handles
  /\ nruns' = nruns + 1
  /\ UNCHANGED <<aside, handles, task_calls>>
  /\ IF final_task_output.workflow # "self"
     THEN /\ outcome' = [kind |-> "ValueError", value |-> None]
          /\ UNCHANGED <<runvars, pc>>
     ELSE
       LET dag == build_dag(task_calls, <<final_task_output.id>>, {}, {},
                            task_status, task_dependencies, task_dependents)
           required == {tid \in DOMAIN dag.task_status : tid \in DOMAIN task_calls}
       IN
       /\ task_results' = task_results
       /\ task_status' = dag.task_status
       /\ task_dependencies' = dag.task_dependencies
       /\ task_dependents' = dag.task_dependents
       /\ target_id' = final_task_output.id
       /\ required_tasks' = required
       /\ tasks_failed' = {}
       /\ tasks_completed' = {}
       /\ active_futures' = {}
       /\ ready_to_submit' = {}
       /\ done' = {}
       /\ futures' = EmptyMap
       /\ IF required = {}
          THEN /\ outcome' = [kind |-> "returned", value |-> None]
               /\ pc' = "idle"
          ELSE /\ outcome' = [kind |-> "none", value |-> None]
               /\ pc' = "loop"

\* run(h): the checks, the reset, the DAG and the required set
RunStart(final_task_output) ==
  /\ pc = "idle"
  /\ nruns < MaxRuns
  /\ final_task_output.id \in handles
  /\ nruns' = nruns + 1
  /\ UNCHANGED <<aside, handles, task_calls>>
  /\ IF final_task_output.workflow # "self"
     THEN /\ outcome' = [kind |-> "ValueError", value |-> None]
          /\ UNCHANGED <<runvars, pc>>
     ELSE
       LET dag == build_dag(task_calls, <<final_task_output.id>>, {}, {},
                            EmptyMap, EmptyMap, EmptyMap)
           required == {tid \in DOMAIN dag.task_status : tid \in DOMAIN task_calls}
       IN
       /\ task_results' = EmptyMap
       /\ task_status' = dag.task_status
       /\ task_dependencies' = dag.task_dependencies
       /\ task_dependents' = dag.task_dependents
       /\ target_id' = final_task_output.id
       /\ required_tasks' = required
       /\ tasks_failed' = {}
       /\ tasks_completed' = {}
       /\ active_futures' = {}
       /\ ready_to_submit' = {}
       /\ done' = {}
       /\ futures' = EmptyMap
       /\ IF required = {}
          THEN /\ outcome' = [kind |-> "returned", value |-> None]
               /\ pc' = "idle"
          ELSE /\ outcome' = [kind |-> "none", value |-> None]
               /\ pc' = "loop"

StatusGet(tid) == IF tid \in DOMAIN task_status THEN task_status[tid] ELSE "NONE"

DependenciesGet(tid) ==
  IF tid \in DOMAIN task_dependencies THEN task_dependencies[tid] ELSE {}

DependentsGet(tid) ==
  IF tid \in DOMAIN task_dependents THEN task_dependents[tid] ELSE {}

\* a scan that stops finding tasks once a task has failed
ReadyUntilFailure ==
  IF tasks_failed # {} THEN {}
  ELSE {task_id \in (required_tasks \ tasks_completed) \ tasks_failed :
          /\ StatusGet(task_id) = "PENDING"
          /\ \A dep_id \in DependenciesGet(task_id) : dep_id \in DOMAIN task_results}

\* a scan that does not look at the status
ReadyAnyStatus ==
  {task_id \in (required_tasks \ tasks_completed) \ tasks_failed :
     \A dep_id \in DependenciesGet(task_id) : dep_id \in DOMAIN task_results}

\* a scan that takes every PENDING task for ready
ReadyIgnoringDependencies ==
  {task_id \in (required_tasks \ tasks_completed) \ tasks_failed :
     StatusGet(task_id) = "PENDING"}

\* the readiness scan of one loop iteration
Ready ==
  {task_id \in (required_tasks \ tasks_completed) \ tasks_failed :
     /\ StatusGet(task_id) = "PENDING"
     /\ \A dep_id \in DependenciesGet(task_id) : dep_id \in DOMAIN task_results}

\* the loop condition and the scan
LoopScan ==
  /\ pc = "loop"
  /\ IF Cardinality(tasks_completed) + Cardinality(tasks_failed) < Cardinality(required_tasks)
     THEN /\ ready_to_submit' = Ready
          /\ pc' = IF Ready = {} THEN "wait" ELSE "submit"
     ELSE /\ pc' = "end"
          /\ UNCHANGED ready_to_submit
  /\ UNCHANGED <<aside, handles, task_calls, task_results, task_status, task_dependencies,
                 task_dependents, target_id, required_tasks, tasks_failed,
                 tasks_completed, active_futures, done, futures, outcome, nruns>>

\* resolution of the arguments: only an argument that is itself a handle is replaced
ResolveArg(a) ==
  IF a.kind = "handle" THEN [kind |-> "value", ref |-> task_results[a.ref]] ELSE a

resolved_args(h) == [i \in DOMAIN h.call_args |-> ResolveArg(h.call_args[i])]

resolved_kwargs(h) ==
  [i \in DOMAIN h.call_kwargs |->
     [key |-> h.call_kwargs[i].key, value |-> ResolveArg(h.call_kwargs[i].value)]]

\* self.task_results[arg.id] raises KeyError
ResolveFails(h) ==
  \/ \E a \in Range(h.call_args) : a.kind = "handle" /\ a.ref \notin DOMAIN task_results
  \/ \E kv \in Range(h.call_kwargs) :
       kv.value.kind = "handle" /\ kv.value.ref \notin DOMAIN task_results

Submissions(tid) == IF tid \in DOMAIN futures THEN futures[tid].nsub ELSE 0

NewFuture(task_id, h) ==
  [state |-> "PENDING", func |-> h.task_func, args |-> resolved_args(h),
   kwargs |-> resolved_kwargs(h), ok |-> FALSE, result |-> None,
   nsub |-> Submissions(task_id) + 1]

\* a submission loop that goes to the wait after its first iteration
SubmitOnce(task_id) ==
  /\ pc = "submit"
  /\ task_id \in ready_to_submit
  /\ LET task_output == task_calls[task_id] IN
     IF ResolveFails(task_output)
     THEN /\ task_status' = MapPut(task_status, task_id, "FAILED")
          /\ tasks_failed' = tasks_failed \cup {task_id}
          /\ UNCHANGED <<futures, active_futures>>
     ELSE /\ task_status' = MapPut(task_status, task_id, "RUNNING")
          /\ futures' = MapPut(futures, task_id, NewFuture(task_id, task_output))
          /\ active_futures' = active_futures \cup {task_id}
          /\ UNCHANGED tasks_failed
  /\ ready_to_submit' = {}
  /\ pc' = "wait"
  /\ UNCHANGED <<aside, handles, task_calls, task_results, task_dependencies, task_dependents,
                 target_id, required_tasks, tasks_completed, done, outcome, nruns>>

\* one iteration of the submission loop
Submit(task_id) ==
  /\ pc = "submit"
  /\ task_id \in ready_to_submit
  /\ LET task_output == task_calls[task_id] IN
     IF ResolveFails(task_output)
     THEN /\ task_status' = MapPut(task_status, task_id, "FAILED")
          /\ tasks_failed' = tasks_failed \cup {task_id}
          /\ UNCHANGED <<futures, active_futures>>
     ELSE /\ task_status' = MapPut(task_status, task_id, "RUNNING")
          /\ futures' = MapPut(futures, task_id, NewFuture(task_id, task_output))
          /\ active_futures' = active_futures \cup {task_id}
          /\ UNCHANGED tasks_failed
  /\ ready_to_submit' = ready_to_submit \ {task_id}
  /\ pc' = IF ready_to_submit' = {} THEN "wait" ELSE "submit"
  /\ UNCHANGED <<aside, handles, task_calls, task_results, task_dependencies, task_dependents,
                 target_id, required_tasks, tasks_completed, done, outcome, nruns>>

Finished == {t \in active_futures : futures[t].state = "FINISHED"}

\* a loop that scans again instead of leaving when nothing is in flight
WaitStuckRescan ==
  /\ pc = "wait"
  /\ active_futures = {}
  /\ pc' = "loop"
  /\ UNCHANGED <<aside, handles, task_calls, runvars, outcome, nruns>>

\* nothing in flight: leave the loop
WaitStuck ==
  /\ pc = "wait"
  /\ active_futures = {}
  /\ pc' = "end"
  /\ UNCHANGED <<aside, handles, task_calls, runvars, outcome, nruns>>

\* concurrent.futures.wait(FIRST_COMPLETED) returns some finished futures
Wait(D) ==
  /\ pc = "wait"
  /\ active_futures # {}
  /\ D # {}
  /\ D \subseteq Finished
  /\ done' = D
  /\ pc' = "process"
  /\ UNCHANGED <<aside, handles, task_calls, task_results, task_status, task_dependencies,
                 task_dependents, target_id, required_tasks, tasks_failed,
                 tasks_completed, active_futures, ready_to_submit, futures, outcome,
                 nruns>>

\* a propagation that gives up every task that has not ended
cancel_unfinished(cancel_queue, visited_cancel, status, failed) ==
  [task_status |->
     [t \in DOMAIN status |->
        IF status[t] \in {"PENDING", "RUNNING"} /\ t \notin visited_cancel
        THEN "CANCELLED" ELSE status[t]],
   tasks_failed |->
     failed \cup {t \in DOMAIN status :
                    status[t] \in {"PENDING", "RUNNING"} /\ t \notin visited_cancel}]

\* a propagation that cancels every PENDING task
cancel_all(cancel_queue, visited_cancel, status, failed) ==
  [task_status |->
     [t \in DOMAIN status |-> IF status[t] = "PENDING" THEN "CANCELLED" ELSE status[t]],
   tasks_failed |-> failed \cup {t \in DOMAIN status : status[t] = "PENDING"}]

\* a propagation that cancels the direct dependents and goes no further
RECURSIVE cancel_direct(_, _, _, _)
cancel_direct(cancel_queue, visited_cancel, status, failed) ==
  IF cancel_queue = <<>>
  THEN [task_status |-> status, tasks_failed |-> failed]
  ELSE
    LET dependent_id == Head(cancel_queue)
        rest == Tail(cancel_queue)
        visited2 == visited_cancel \cup {dependent_id}
    IN
    IF dependent_id \in visited_cancel
    THEN cancel_direct(rest, visited_cancel, status, failed)
    ELSE IF /\ dependent_id \in DOMAIN task_calls
            /\ dependent_id \in DOMAIN status
            /\ status[dependent_id] = "PENDING"
    THEN cancel_direct(rest, visited2, MapPut(status, dependent_id, "CANCELLED"),
                       failed \cup {dependent_id})
    ELSE cancel_direct(rest, visited2, status, failed)

\* failure propagation: the while loop over cancel_queue
RECURSIVE cancel(_, _, _, _)
cancel(cancel_queue, visited_cancel, status, failed) ==
  IF cancel_queue = <<>>
  THEN [task_status |-> status, tasks_failed |-> failed]
  ELSE
    LET dependent_id == Head(cancel_queue)
        rest == Tail(cancel_queue)
        visited2 == visited_cancel \cup {dependent_id}
    IN
    IF dependent_id \in visited_cancel
    THEN cancel(rest, visited_cancel, status, failed)
    ELSE IF /\ dependent_id \in DOMAIN task_calls
            /\ dependent_id \in DOMAIN status
            /\ status[dependent_id] = "PENDING"
    THEN cancel(rest \o SetToSeq({n \in DependentsGet(dependent_id) : n \notin visited2}),
                visited2, MapPut(status, dependent_id, "CANCELLED"),
                failed \cup {dependent_id})
    ELSE cancel(rest, visited2, status, failed)

\* one iteration of the loop over the finished futures
Process(task_id) ==
  /\ pc = "process"
  /\ task_id \in done
  /\ active_futures' = active_futures \ {task_id}
  /\ done' = done \ {task_id}
  /\ pc' = IF done' = {} THEN "loop" ELSE "process"
  /\ IF futures[task_id].ok
     THEN /\ task_results' = MapPut(task_results, task_id, futures[task_id].result)
          /\ task_status' = MapPut(task_status, task_id, "COMPLETED")
          /\ tasks_completed' = tasks_completed \cup {task_id}
          /\ UNCHANGED tasks_failed
     ELSE LET c == cancel(SetToSeq(DependentsGet(task_id)), {task_id},
                          MapPut(task_status, task_id, "FAILED"),
                          tasks_failed \cup {task_id})
          IN /\ task_status' = c.task_status
             /\ tasks_failed' = c.tasks_failed
             /\ UNCHANGED <<task_results, tasks_completed>>
  /\ UNCHANGED <<aside, handles, task_calls, task_dependencies, task_dependents, target_id,
                 required_tasks, ready_to_submit, futures, outcome, nruns>>

\* a summary that lists the tasks that failed themselves and not the cancelled ones
failure_summary_failed_only(failed, calls, status) ==
  {[name |-> calls[tid].task_func, id |-> tid, status |-> status[tid]] :
     tid \in {t \in failed \cap DOMAIN calls : status[t] = "FAILED"}}

\* the lines printed before run raises, one for each id of the failed set; the set
\* stands for the printout, whose lines come in the order of the sorted ids
failure_summary(failed, calls, status) ==
  {IF tid \in DOMAIN calls
   THEN [name |-> calls[tid].task_func, id |-> tid,
         status |-> IF tid \in DOMAIN status THEN status[tid] ELSE "UNKNOWN"]
   ELSE [name |-> "Unknown Task", id |-> tid, status |-> "FAILED/CANCELLED"] :
     tid \in failed}

\* a final check that returns whatever the result map holds for the target
FinishWithoutCheck ==
  /\ pc = "end"
  /\ pc' = "idle"
  /\ outcome' = [kind |-> "returned",
                 value |-> IF target_id \in DOMAIN task_results
                           THEN task_results[target_id] ELSE None]
  /\ UNCHANGED <<aside, handles, task_calls, runvars, nruns>>

\* a final check that returns the result of some completed task
FinishWithAnyResult ==
  /\ pc = "end"
  /\ pc' = "idle"
  /\ \E t \in {target_id} \cup DOMAIN task_results :
       outcome' =
         IF target_id \in tasks_failed \/ StatusGet(target_id) # "COMPLETED"
         THEN [kind |-> "WorkflowFailure", value |-> None,
               summary |-> failure_summary(tasks_failed, task_calls, task_status)]
         ELSE [kind |-> "returned",
               value |-> IF t \in DOMAIN task_results THEN task_results[t] ELSE None]
  /\ UNCHANGED <<aside, handles, task_calls, runvars, nruns>>

\* after the loop: the final check
Finish ==
  /\ pc = "end"
  /\ pc' = "idle"
  /\ outcome' =
       IF target_id \in tasks_failed \/ StatusGet(target_id) # "COMPLETED"
       THEN [kind |-> "WorkflowFailure", value |-> None,
             summary |-> failure_summary(tasks_failed, task_calls, task_status)]
       ELSE [kind |-> "returned",
             value |-> IF target_id \in DOMAIN task_results
                       THEN task_results[target_id] ELSE None]
  /\ UNCHANGED <<aside, handles, task_calls, runvars, nruns>>

\* ---------------------------------------------------------------- worker pool
Executing == {t \in DOMAIN futures : futures[t].state = "RUNNING"}

\* a pool that starts a process for every queued call
WorkerStartUnbounded(task_id) ==
  /\ task_id \in DOMAIN futures
  /\ futures[task_id].state = "PENDING"
  /\ futures' = [futures EXCEPT ![task_id].state = "RUNNING"]
  /\ UNCHANGED <<aside, handles, task_calls, task_results, task_status, task_dependencies,
                 task_dependents, pc, target_id, required_tasks, tasks_failed,
                 tasks_completed, active_futures, ready_to_submit, done, outcome,
                 nruns>>

\* a pool process takes the call from the queue and enters _run_task_in_process
WorkerStart(task_id) ==
  /\ task_id \in DOMAIN futures
  /\ futures[task_id].state = "PENDING"
  /\ Cardinality(Executing) < max_workers
  /\ futures' = [futures EXCEPT ![task_id].state = "RUNNING"]
  /\ UNCHANGED <<aside, handles, task_calls, task_results, task_status, task_dependencies,
                 task_dependents, pc, target_id, required_tasks, tasks_failed,
                 tasks_completed, active_futures, ready_to_submit, done, outcome,
                 nruns>>

\* a worker that writes its result into the result map itself
WorkerReturnRecording(task_id, v) ==
  /\ task_id \in DOMAIN futures
  /\ futures[task_id].state = "RUNNING"
  /\ futures' = [futures EXCEPT ![task_id].state = "FINISHED",
                                ![task_id].ok = TRUE, ![task_id].result = v]
  /\ task_results' = MapPut(task_results, task_id, v)
  /\ UNCHANGED <<aside, handles, task_calls, task_status, task_dependencies,
                 task_dependents, pc, target_id, required_tasks, tasks_failed,
                 tasks_completed, active_futures, ready_to_submit, done, outcome,
                 nruns>>

\* the user function returns v
WorkerReturn(task_id, v) ==
  /\ task_id \in DOMAIN futures
  /\ futures[task_id].state = "RUNNING"
  /\ futures' = [futures EXCEPT ![task_id].state = "FINISHED",
                                ![task_id].ok = TRUE, ![task_id].result = v]
  /\ UNCHANGED <<aside, handles, task_calls, task_results, task_status, task_dependencies,
                 task_dependents, pc, target_id, required_tasks, tasks_failed,
                 tasks_completed, active_futures, ready_to_submit, done, outcome,
                 nruns>>

\* the invocation raises: the future carries the wrapped error
WorkerRaise(task_id) ==
  /\ task_id \in DOMAIN futures
  /\ futures[task_id].state = "RUNNING"
  /\ futures' = [futures EXCEPT ![task_id].state = "FINISHED", ![task_id].ok = FALSE]
  /\ UNCHANGED <<aside, handles, task_calls, task_results, task_status, task_dependencies,
                 task_dependents, pc, target_id, required_tasks, tasks_failed,
                 tasks_completed, active_futures, ready_to_submit, done, outcome,
                 nruns>>

\* ---------------------------------------------------------------- specification
Next ==
  \/ \E name \in CallNames, a \in PosArgsOver(handles), kw \in KwargsOver(handles) :
       wrapper(name, a, kw)
  \/ \E wf \in Workflows, name \in CallNames, a \in PosArgsOver(handles),
        kw \in KwargsOver(handles) : Construct(wf, name, a, kw)
  \/ \E v \in Values : RunPlain(v)
  \/ \E wf \in Workflows, id \in handles : RunStart([workflow |-> wf, id |-> id])
  \/ LoopScan
  \/ \E t \in ready_to_submit : Submit(t)
  \/ WaitStuck
  \/ \E D \in SUBSET Finished : Wait(D)
  \/ \E t \in done : Process(t)
  \/ Finish
  \/ \E t \in DOMAIN futures : WorkerStart(t)
  \/ \E t \in DOMAIN futures, v \in Values : WorkerReturn(t, v)
  \/ \E t \in DOMAIN futures : WorkerRaise(t)

Spec == Init /\ [][Next]_vars

\* the driver thread: the statements of run after the DAG is built, in sequence
DriverStep ==
  \/ LoopScan
  \/ \E t \in ready_to_submit : Submit(t)
  \/ WaitStuck
  \/ \E D \in SUBSET Finished : Wait(D)
  \/ \E t \in done : Process(t)
  \/ Finish

\* the pool: a free process takes a queued call, a running call returns or raises
PoolStep ==
  \/ \E t \in DOMAIN futures : WorkerStart(t)
  \/ \E t \in DOMAIN futures, v \in Values : WorkerReturn(t, v)
  \/ \E t \in DOMAIN futures : WorkerRaise(t)

\* the driver thread keeps running and the pool keeps working on what it was given
FairSpec == Spec /\ WF_vars(DriverStep) /\ WF_vars(PoolStep)

\* ---------------------------------------------------------------- handles on their own
\* TaskOutput examined apart from a run: handles are built from argument values of
\* every kind and their fingerprints and dependency sets are kept in probe.
ProbeFuncs == {[name |-> n, def |-> d] : n \in FuncNames, d \in FuncDefs}

LeafF == TaskOutput_init("self", [name |-> "f", def |-> "first"], <<>>, <<>>)
LeafG == TaskOutput_init("self", [name |-> "g", def |-> "first"], <<>>, <<>>)
Leaves == {LeafF, LeafG}

ProbeItems == {IntVal(1)} \cup {HandleVal(h) : h \in Leaves}

\* texts, some of which spell a number, a list or a handle
ProbeTexts == {"a", "1", "[1]", "[1, 1]", "<TaskOutput:" \o LeafF.id \o ">"}

ProbeValues ==
  {IntVal(v) : v \in Values} \cup {StrVal(s) : s \in ProbeTexts}
  \cup {HandleVal(h) : h \in Leaves}
  \cup {ListVal(s) : s \in SeqsUpTo(ProbeItems, MaxItems)}
  \cup {TupleVal(s) : s \in SeqsUpTo(ProbeItems, MaxItems)}
  \cup {ListVal(<<ListVal(<<HandleVal(h)>>)>>) : h \in Leaves}
  \cup {DictVal(<<[key |-> "k", value |-> x]>>) : x \in ProbeItems}

ProbeKwValues == {IntVal(1), HandleVal(LeafF), ListVal(<<HandleVal(LeafG)>>)}

\* keyword arguments in the order the caller wrote them, each key once
ProbeKwargs ==
  {kw \in SeqsUpTo([key : ProbeKwNames, value : ProbeKwValues], Cardinality(ProbeKwNames)) :
     \A i, j \in DOMAIN kw : i # j => kw[i].key # kw[j].key}

\* positional arguments of a probed call
ProbeArgs == SeqsUpTo(ProbeValues, MaxArgs)

ProbeEntry(workflow, task_func, args, kwargs) ==
  LET h == TaskOutput_init(workflow, task_func, args, kwargs)
  IN [handle |-> h, kwargs |-> kwargs, deps |-> get_dependencies(h)]

\* TaskOutput(self, func, args, kwargs)
NewHandle(task_func, args, kwargs) ==
  /\ probe = <<>>
  /\ probe' = <<ProbeEntry("self", task_func, args, kwargs)>>
  /\ UNCHANGED <<dormant, apart, task_registry, wrappers, invocations, dirs>>

\* the same call made again: the same function name and argument values, from any
\* workflow, any function of that name and any order of the keyword arguments
SameCall(workflow, task_func, kwargs) ==
  /\ Len(probe) = 1
  /\ task_func.name = probe[1].handle.task_func.name
  /\ Len(kwargs) = Len(probe[1].kwargs)
  /\ Range(kwargs) = Range(probe[1].kwargs)
  /\ probe' = Append(probe, ProbeEntry(workflow, task_func, probe[1].handle.call_args, kwargs))
  /\ UNCHANGED <<dormant, apart, task_registry, wrappers, invocations, dirs>>

\* another call: the function name differs from the first call
OtherName(task_func) ==
  /\ Len(probe) = 1
  /\ task_func.name # probe[1].handle.task_func.name
  /\ probe' = Append(probe, ProbeEntry("self", task_func, probe[1].handle.call_args,
                                       probe[1].kwargs))
  /\ UNCHANGED <<dormant, apart, task_registry, wrappers, invocations, dirs>>

\* another call: the positional arguments differ from the first call
OtherArgs(args) ==
  /\ Len(probe) = 1
  /\ args # probe[1].handle.call_args
  /\ probe' = Append(probe, ProbeEntry("self", probe[1].handle.task_func, args,
                                       probe[1].kwargs))
  /\ UNCHANGED <<dormant, apart, task_registry, wrappers, invocations, dirs>>

\* another call: the value of one keyword argument differs from the first call
OtherKwarg(i, value) ==
  /\ Len(probe) = 1
  /\ i \in DOMAIN probe[1].kwargs
  /\ value # probe[1].kwargs[i].value
  /\ probe' = Append(probe, ProbeEntry("self", probe[1].handle.task_func,
                                       probe[1].handle.call_args,
                                       [probe[1].kwargs EXCEPT ![i].value = value]))
  /\ UNCHANGED <<dormant, apart, task_registry, wrappers, invocations, dirs>>

FirstDefs == {f \in ProbeFuncs : f.def = "first"}

HandleNext ==
  \/ \E f \in FirstDefs, a \in ProbeArgs, kw \in ProbeKwargs : NewHandle(f, a, kw)
  \/ \E wf \in Workflows, f \in ProbeFuncs, kw \in ProbeKwargs : SameCall(wf, f, kw)
  \/ \E f \in FirstDefs : OtherName(f)
  \/ \E a \in ProbeArgs : OtherArgs(a)
  \/ \E i \in 1..Cardinality(ProbeKwNames), v \in ProbeKwValues : OtherKwarg(i, v)

\* a workflow in which no task has been called yet
HandleInit == Init /\ handles = {}

HandleSpec == HandleInit /\ [][HandleNext]_vars

\* ---------------------------------------------------------------- registration
\* a decorator that records the function whatever the registry holds
task_overwriting(func) ==
  /\ Len(wrappers) < MaxWrappers
  /\ task_registry' = MapPut(task_registry, func.name, func)
  /\ wrappers' = Append(wrappers, func)
  /\ UNCHANGED <<dormant, apart, probe, invocations, dirs>>

\* Workflow.task: the decorator records the function under its name when the name
\* is new and returns a handle factory that holds the function
task(func) ==
  /\ Len(wrappers) < MaxWrappers
  /\ task_registry' = IF func.name \notin DOMAIN task_registry
                      THEN MapPut(task_registry, func.name, func)
                      ELSE task_registry
  /\ wrappers' = Append(wrappers, func)
  /\ UNCHANGED <<dormant, apart, probe, invocations, dirs>>

RegistryNext == \E func \in ProbeFuncs : task(func)

RegistrySpec == Created /\ [][RegistryNext]_vars

\* ---------------------------------------------------------------- one invocation
\* _run_task_in_process examined apart from the scheduler: the driver hands a
\* resolved call to the pool and the worker goes through its steps.
ReservedNames == {"task_work_dir", "config"}

\* a path: its components, "/" first when it is absolute
cwd == <<"/", "home">>

abspath(path) == IF path # <<>> /\ path[1] = "/" THEN path ELSE cwd \o path

\* os.makedirs(path, exist_ok=True): the directory and those above it exist afterwards
makedirs(path, existing) == existing \cup {SubSeq(path, 1, n) : n \in 1..Len(path)}

\* Workflow.__init__ with the default work_dir
work_root == abspath(<<"_pyflow_work">>)

PathVal(path) == [kind |-> "path", parts |-> path]

\* the configurations assigned to the workflow
Configs == {DictVal(<<>>), DictVal(<<[key |-> "threads", value |-> IntVal(1)]>>)}

\* the handles whose calls are handed to the pool: no argument, or a keyword
\* argument that bears a reserved name
WorkerHandles ==
  {TaskOutput_init("self", [name |-> "f", def |-> "first"], <<>>, kw) :
     kw \in {<<>>, <<[key |-> "config", value |-> IntVal(2)]>>}}
  \cup {TaskOutput_init("self", [name |-> "g", def |-> "first"], <<>>, <<>>)}

\* a directory named after the function alone
task_work_dir_by_name(func_name, task_id) == work_root \o <<func_name>>

\* os.path.join(self._work_dir, func_name, task_id)
task_work_dir(func_name, task_id) == work_root \o <<func_name, task_id>>

\* dict(task_output.call_kwargs)
AsDict(call_kwargs) ==
  [k \in {call_kwargs[i].key : i \in DOMAIN call_kwargs} |->
     call_kwargs[CHOOSE i \in DOMAIN call_kwargs : call_kwargs[i].key = k].value]

\* what the pool sets on the future of the call
NothingDelivered == [kind |-> "none", type |-> "", traceback |-> FALSE]

Returned == [kind |-> "result", type |-> "", traceback |-> FALSE]

Raised(type, traceback) == [kind |-> "error", type |-> type, traceback |-> traceback]

\* the submission of a ready task whose arguments hold no handle: the call, with a
\* copy of each of its arguments, is queued for the pool
SubmitCall(task_output, parameters) ==
  /\ pc = "loop"
  /\ task_output.id \notin DOMAIN invocations
  /\ Cardinality(DOMAIN invocations) < MaxInvocations
  /\ invocations' =
       MapPut(invocations, task_output.id,
              [user_func |-> task_output.task_func, parameters |-> parameters,
               func_name |-> task_output.task_func.name,
               args |-> task_output.call_args, kwargs |-> AsDict(task_output.call_kwargs),
               work_dir |-> task_work_dir(task_output.task_func.name, task_output.id),
               config |-> config, mapping |-> config, at |-> "queued",
               received |-> [args |-> <<>>, kwargs |-> EmptyMap],
               delivered |-> NothingDelivered])
  /\ UNCHANGED <<dormant, apart, probe, task_registry, wrappers, dirs>>

\* a worker that goes on without creating the directory
WorkerPrepareNoDir(task_id) ==
  /\ task_id \in DOMAIN invocations
  /\ invocations[task_id].at = "queued"
  /\ invocations' = [invocations EXCEPT ![task_id].at = "prepared"]
  /\ UNCHANGED <<dormant, apart, probe, task_registry, wrappers, dirs>>

\* the worker makes the directory of the task; the links it then puts there
\* for the arguments change nothing of the call
WorkerPrepare(task_id) ==
  /\ task_id \in DOMAIN invocations
  /\ invocations[task_id].at = "queued"
  /\ dirs' = makedirs(abspath(invocations[task_id].work_dir), dirs)
  /\ invocations' = [invocations EXCEPT ![task_id].at = "prepared"]
  /\ UNCHANGED <<dormant, apart, probe, task_registry, wrappers>>

\* os.makedirs raises: the statement stands before the try, the error leaves
\* _run_task_in_process as it is and the pool sets it on the future
WorkerPrepareFails(task_id) ==
  /\ task_id \in DOMAIN invocations
  /\ invocations[task_id].at = "queued"
  /\ invocations' = [invocations EXCEPT ![task_id].at = "finished",
                                        ![task_id].delivered = Raised("OSError", FALSE)]
  /\ UNCHANGED <<dormant, apart, probe, task_registry, wrappers, dirs>>

\* keyword arguments with both reserved names bound whatever the function declares
final_kwargs_always(parameters, kwargs, abs_work_dir, worker_config) ==
  [k \in (DOMAIN kwargs) \cup ReservedNames |->
     IF k = "task_work_dir" THEN PathVal(abs_work_dir)
     ELSE IF k = "config" THEN worker_config
     ELSE kwargs[k]]

\* the keyword arguments of the call: those given, and the reserved names the
\* signature of the function declares
final_kwargs(parameters, kwargs, abs_work_dir, worker_config) ==
  LET with_dir == IF "task_work_dir" \in parameters
                  THEN MapPut(kwargs, "task_work_dir", PathVal(abs_work_dir))
                  ELSE kwargs
  IN IF "config" \in parameters THEN MapPut(with_dir, "config", worker_config) ELSE with_dir

\* the worker calls the user function
WorkerCall(task_id) ==
  /\ task_id \in DOMAIN invocations
  /\ invocations[task_id].at = "prepared"
  /\ LET call == invocations[task_id] IN
     invocations' =
       [invocations EXCEPT
          ![task_id].at = "called",
          ![task_id].received =
            [args |-> call.args,
             kwargs |-> final_kwargs(call.parameters, call.kwargs,
                                     abspath(call.work_dir), call.config)]]
  /\ UNCHANGED <<dormant, apart, probe, task_registry, wrappers, dirs>>

\* what a user function writes into the mapping it was given
Written(mapping) == DictVal(mapping.items \o <<[key |-> "seen", value |-> IntVal(1)]>>)

\* a pool that hands the driver's own mapping to the user function
UserWritesSharedConfig(task_id) ==
  /\ task_id \in DOMAIN invocations
  /\ invocations[task_id].at = "called"
  /\ "config" \in invocations[task_id].parameters
  /\ invocations[task_id].mapping = invocations[task_id].config
  /\ invocations' =
       [invocations EXCEPT ![task_id].mapping = Written(invocations[task_id].mapping)]
  /\ config' = Written(config)
  /\ UNCHANGED <<dormant, links, helper_calls, probe, task_registry, wrappers, dirs>>

\* the user function writes into its config argument: the mapping it holds is the
\* copy the pool made for this call in the worker process
UserWritesConfig(task_id) ==
  /\ task_id \in DOMAIN invocations
  /\ invocations[task_id].at = "called"
  /\ "config" \in invocations[task_id].parameters
  /\ invocations[task_id].mapping = invocations[task_id].config
  /\ invocations' =
       [invocations EXCEPT ![task_id].mapping = Written(invocations[task_id].mapping)]
  /\ UNCHANGED <<dormant, apart, probe, task_registry, wrappers, dirs>>

\* the user function returns
WorkerDone(task_id) ==
  /\ task_id \in DOMAIN invocations
  /\ invocations[task_id].at = "called"
  /\ invocations' = [invocations EXCEPT ![task_id].at = "finished",
                                        ![task_id].delivered = Returned]
  /\ UNCHANGED <<dormant, apart, probe, task_registry, wrappers, dirs>>

\* the user function raises: the except clause raises a RuntimeError whose message
\* holds the formatted traceback
WorkerFails(task_id) ==
  /\ task_id \in DOMAIN invocations
  /\ invocations[task_id].at = "called"
  /\ invocations' = [invocations EXCEPT ![task_id].at = "finished",
                                        ![task_id].delivered = Raised("RuntimeError", TRUE)]
  /\ UNCHANGED <<dormant, apart, probe, task_registry, wrappers, dirs>>

\* the caller assigns a configuration between two runs
AssignConfig(mapping) ==
  /\ pc = "idle"
  /\ config # mapping
  /\ config' = mapping
  /\ UNCHANGED <<dormant, links, helper_calls, probe, task_registry, wrappers,
                 invocations, dirs>>

\* run, up to the loop: the root directory is made
RunBegin ==
  /\ pc = "idle"
  /\ pc' = "loop"
  /\ invocations' = EmptyMap
  /\ dirs' = makedirs(work_root, dirs)
  /\ UNCHANGED <<dormant_but_pc, apart, probe, task_registry, wrappers>>

\* every call that was submitted has been processed: run ends
RunEnd ==
  /\ pc = "loop"
  /\ invocations # EmptyMap
  /\ \A t \in DOMAIN invocations : invocations[t].at = "finished"
  /\ pc' = "idle"
  /\ UNCHANGED <<dormant_but_pc, aside>>

Under(path, dir) == Len(path) >= Len(dir) /\ SubSeq(path, 1, Len(dir)) = dir

\* what shutil.rmtree may leave of the tree when it fails: the root and, with every
\* directory left, the directories above it
Leftovers ==
  {keep \in SUBSET dirs :
     /\ work_root \in keep
     /\ \A d \in dirs : ~Under(d, work_root) => d \in keep
     /\ \A d \in keep : \A n \in 1..Len(d) : SubSeq(d, 1, n) \in keep}

\* a cleanup that lets the error of rmtree out
cleanup_raising(removed) ==
  /\ pc = "idle"
  /\ IF work_root \in dirs
     THEN IF removed
          THEN /\ dirs' = {d \in dirs : ~Under(d, work_root)}
               /\ outcome' = [kind |-> "cleaned", value |-> "removed"]
          ELSE /\ dirs' \in Leftovers
               /\ outcome' = [kind |-> "OSError", value |-> "raised"]
     ELSE /\ ~removed
          /\ outcome' = [kind |-> "cleaned", value |-> "skipped"]
          /\ UNCHANGED dirs
  /\ UNCHANGED <<handles, task_calls, runvars, pc, nruns, apart, probe, task_registry,
                 wrappers, invocations>>

\* Workflow.cleanup: the tree under the root is removed, or rmtree fails somewhere
\* in it and a warning is printed; nothing is done when the root is not there
cleanup(removed) ==
  /\ pc = "idle"
  /\ IF work_root \in dirs
     THEN IF removed
          THEN /\ dirs' = {d \in dirs : ~Under(d, work_root)}
               /\ outcome' = [kind |-> "cleaned", value |-> "removed"]
          ELSE /\ dirs' \in Leftovers
               /\ outcome' = [kind |-> "cleaned", value |-> "warned"]
     ELSE /\ ~removed
          /\ outcome' = [kind |-> "cleaned", value |-> "skipped"]
          /\ UNCHANGED dirs
  /\ UNCHANGED <<handles, task_calls, runvars, pc, nruns, apart, probe, task_registry,
                 wrappers, invocations>>

WorkerNext ==
  \/ \E mapping \in Configs : AssignConfig(mapping)
  \/ RunBegin
  \/ \E h \in WorkerHandles, parameters \in SUBSET ReservedNames : SubmitCall(h, parameters)
  \/ \E t \in DOMAIN invocations : WorkerPrepare(t)
  \/ \E t \in DOMAIN invocations : WorkerPrepareFails(t)
  \/ \E t \in DOMAIN invocations : WorkerCall(t)
  \/ \E t \in DOMAIN invocations : UserWritesConfig(t)
  \/ \E t \in DOMAIN invocations : WorkerDone(t)
  \/ \E t \in DOMAIN invocations : WorkerFails(t)
  \/ RunEnd
  \/ \E removed \in BOOLEAN : cleanup(removed)

WorkerSpec == Created /\ [][WorkerNext]_vars

\* ---------------------------------------------------------------- input links
\* _create_input_symlink examined on its own, over a small file system. Paths are
\* given as text; the file system holds them as sequences of components.
Alnum == {"a", "b", "d", "e", "h", "i", "l", "m", "n", "o", "r", "t", "w", "x", "y"}

\* the components of the text s from its i-th character on, cur being the
\* component read so far
RECURSIVE ComponentsFrom(_, _, _)
ComponentsFrom(s, i, cur) ==
  IF i > Len(s) THEN (IF cur = "" THEN <<>> ELSE <<cur>>)
  ELSE LET c == SubSeq(s, i, i) IN
       IF c = "/"
       THEN (IF cur = "" THEN <<>> ELSE <<cur>>) \o ComponentsFrom(s, i + 1, "")
       ELSE ComponentsFrom(s, i + 1, cur \o c)

\* a path given as text, as components
PathOf(text) ==
  IF Len(text) > 0 /\ SubSeq(text, 1, 1) = "/"
  THEN <<"/">> \o ComponentsFrom(text, 2, "")
  ELSE ComponentsFrom(text, 1, "")

\* the text of an absolute path
PathText(path) == "/" \o JoinText(Tail(path), "/")

\* os.path.basename of an absolute path
basename(path) == IF Len(path) = 1 THEN "" ELSE path[Len(path)]

\* str.startswith
startswith(s, prefix) == Len(prefix) <= Len(s) /\ SubSeq(s, 1, Len(prefix)) = prefix

\* the name with every character that is not alphanumeric, '-', '_' or '.' replaced
RECURSIVE safe_basename_from(_, _)
safe_basename_from(name, i) ==
  IF i > Len(name) THEN ""
  ELSE LET c == SubSeq(name, i, i)
       IN (IF c \in Alnum \cup {"-", "_", "."} THEN c ELSE "_")
          \o safe_basename_from(name, i + 1)

safe_basename(link_basename) == safe_basename_from(link_basename, 1)

\* os.path.lexists
lexists(path, entries, symlinks) == path \in entries \/ path \in DOMAIN symlinks

\* os.path.join(abs_link_dir, f"{link_prefix}_{safe_basename}")
link_name(source_text, link_dir_text, link_prefix) ==
  LET abs_source_path == abspath(PathOf(source_text))
      link_basename == IF basename(abs_source_path) = "" THEN "source"
                       ELSE basename(abs_source_path)
  IN abspath(PathOf(link_dir_text)) \o <<link_prefix \o "_" \o safe_basename(link_basename)>>

\* _create_input_symlink: the file system it leaves
create_input_symlink(source_path, link_dir, link_prefix, entries, symlinks) ==
  IF source_path.kind # "str" \/ ~lexists(abspath(PathOf(source_path.val)), entries, symlinks)
  THEN [dirs |-> entries, links |-> symlinks]
  ELSE
    LET abs_source_path == abspath(PathOf(source_path.val))
        abs_link_dir == abspath(PathOf(link_dir))
    IN IF /\ startswith(PathText(abs_source_path), PathText(abs_link_dir))
          /\ abs_source_path # abs_link_dir
       THEN [dirs |-> entries, links |-> symlinks]
       ELSE [dirs |-> makedirs(abs_link_dir, entries),
             links |-> MapPut(symlinks, link_name(source_path.val, link_dir, link_prefix),
                              abs_source_path)]

\* the arguments of a task that the worker tries to link
LinkSources ==
  {IntVal(1), StrVal("/data/x.txt"), StrVal("/data/none"), StrVal("/w/a/in.txt"),
   StrVal("/w/ab/y"), StrVal("/w/a"), StrVal("real x")}

\* the directories the links are put in: one that exists, one still to be made
LinkDirs == {"/w/a", "new"}

\* the files that exist, with the directories above them
LinkFiles ==
  UNION {makedirs(PathOf(text), {}) :
           text \in {"/data/x.txt", "/w/a/in.txt", "/w/ab/y", "/home/real x"}}

\* one call of the helper
Link(source_path, link_dir, link_prefix) ==
  LET after == create_input_symlink(source_path, link_dir, link_prefix, dirs, links) IN
  /\ dirs' = after.dirs
  /\ links' = after.links
  /\ helper_calls' =
       <<[func |-> "_create_input_symlink", source_path |-> source_path,
          link_dir |-> link_dir, link_prefix |-> link_prefix,
          existed |-> /\ source_path.kind = "str"
                      /\ lexists(abspath(PathOf(source_path.val)), dirs, links)]>>
  /\ UNCHANGED <<dormant, config, probe, task_registry, wrappers, invocations>>

LinkInit ==
  /\ NoRun
  /\ handles = {}
  /\ task_calls = EmptyMap
  /\ task_registry = EmptyMap
  /\ wrappers = <<>>
  /\ probe = <<>>
  /\ invocations = EmptyMap
  /\ dirs = LinkFiles
  /\ config = DictVal(<<>>)
  /\ links = EmptyMap
  /\ helper_calls = <<>>

LinkNext ==
  \E source_path \in LinkSources, link_dir \in LinkDirs :
    Link(source_path, link_dir, "input_arg0")

LinkSpec == LinkInit /\ [][LinkNext]_vars

\* ---------------------------------------------------------------- shell commands
\* run_shell examined on its own. A command is what it does when the shell runs it:
\* its exit status and what it writes; an argument that is None is the empty text.
Commands ==
  [returncode : {0, 2}, stdout : {"", "out"}, stderr : {"", "err"}]

ShellDirs == {"", "work"}

LogFiles == {"", "logs/cmd.sh", "/var/log/cmd.sh"}

\* os.path.dirname of a path given as components
dirname(path) == SubSeq(path, 1, Len(path) - 1)

\* the directory the command log goes to
log_dir_abs(cwd_text, command_log_file) ==
  LET log_dir == dirname(PathOf(command_log_file))
      base == IF cwd_text = "" THEN <<>> ELSE PathOf(cwd_text)
  IN IF log_dir # <<>> /\ log_dir[1] # "/" THEN abspath(abspath(base) \o log_dir)
     ELSE IF log_dir # <<>> THEN log_dir
     ELSE abspath(base)

\* a writing of the command log that lets its failure out
save_command_raising(cwd_text, command_log_file, log_fails, entries) ==
  IF command_log_file = ""
  THEN [raised |-> FALSE, dirs |-> entries]
  ELSE IF log_fails
  THEN [raised |-> TRUE, dirs |-> entries]
  ELSE [raised |-> FALSE,
        dirs |-> makedirs(log_dir_abs(cwd_text, command_log_file)
                            \o <<basename(PathOf(command_log_file))>>, entries)]

\* the writing of the command log: a failure in it is caught and reported
save_command(cwd_text, command_log_file, log_fails, entries) ==
  IF command_log_file = "" \/ log_fails
  THEN [raised |-> FALSE, dirs |-> entries]
  ELSE [raised |-> FALSE,
        dirs |-> makedirs(log_dir_abs(cwd_text, command_log_file)
                            \o <<basename(PathOf(command_log_file))>>, entries)]

\* run_shell: how the call ends and the directories it leaves; log_fails and
\* cwd_fails say whether the file system refuses the log or the working directory
run_shell(command, cwd_text, command_log_file, log_fails, cwd_fails, entries) ==
  LET saved == save_command(cwd_text, command_log_file, log_fails, entries) IN
  IF saved.raised
  THEN [executed |-> FALSE, kind |-> "OSError", returncode |-> None, stdout |-> "",
        stderr |-> "", dirs |-> saved.dirs]
  ELSE IF cwd_text # "" /\ cwd_fails
  THEN [executed |-> FALSE, kind |-> "OSError", returncode |-> None, stdout |-> "",
        stderr |-> "", dirs |-> saved.dirs]
  ELSE
    LET made == IF cwd_text = "" THEN saved.dirs
                ELSE makedirs(abspath(PathOf(cwd_text)), saved.dirs)
    IN IF command.returncode = 0
       THEN [executed |-> TRUE, kind |-> "returned", returncode |-> None,
             stdout |-> command.stdout, stderr |-> "", dirs |-> made]
       ELSE [executed |-> TRUE, kind |-> "CalledProcessError",
             returncode |-> command.returncode, stdout |-> command.stdout,
             stderr |-> command.stderr, dirs |-> made]

\* one call of run_shell
Shell(command, cwd_text, command_log_file, log_fails, cwd_fails) ==
  LET ended == run_shell(command, cwd_text, command_log_file, log_fails, cwd_fails, dirs) IN
  /\ log_fails => command_log_file # ""
  /\ cwd_fails => cwd_text # ""
  /\ dirs' = ended.dirs
  /\ helper_calls' =
       <<[func |-> "run_shell", command |-> command, cwd |-> cwd_text,
          command_log_file |-> command_log_file, log_fails |-> log_fails,
          cwd_fails |-> cwd_fails, ended |-> [ended EXCEPT !.dirs = {}]]>>
  /\ UNCHANGED <<dormant, config, links, probe, task_registry, wrappers, invocations>>

ShellNext ==
  \E command \in Commands, cwd_text \in ShellDirs, command_log_file \in LogFiles,
     log_fails \in BOOLEAN, cwd_fails \in BOOLEAN :
    Shell(command, cwd_text, command_log_file, log_fails, cwd_fails)

ShellSpec == Created /\ [][ShellNext]_vars

\* ---------------------------------------------------------------- factories
\* The handle factories and the scheduler on handles as TaskOutput.__init__ makes
\* them: two functions of one name are decorated, their factories are called and
\* the handles they return are run.
FactoryDecorated == <<[name |-> "f", def |-> "first"], [name |-> "f", def |-> "second"]>>

\* the arguments of a factory call: none, a list, the string that spells the list,
\* or a handle a factory returned before
FactoryArgs(made) ==
  {<<>>, <<ListVal(<<IntVal(1)>>)>>, <<StrVal("[1]")>>} \cup {<<HandleVal(h)>> : h \in made}

\* a factory that records the handle it made whatever the table holds
wrapper_call_overwriting(i, args, kwargs) ==
  LET task_output == TaskOutput_init("self", wrappers[i], args, kwargs) IN
  /\ pc = "idle"
  /\ Len(probe) < MaxHandles
  /\ probe' = Append(probe, task_output)
  /\ handles' = handles \cup {task_output.id}
  /\ task_calls' = MapPut(task_calls, task_output.id, task_output)
  /\ UNCHANGED <<runvars, pc, outcome, nruns, task_registry, wrappers, invocations, dirs,
                 apart>>

\* the factory of the i-th decorated function called with args and kwargs: the
\* handle is made, recorded when its fingerprint is new, and returned
wrapper_call(i, args, kwargs) ==
  LET task_output == TaskOutput_init("self", wrappers[i], args, kwargs) IN
  /\ pc = "idle"
  /\ Len(probe) < MaxHandles
  /\ probe' = Append(probe, task_output)
  /\ handles' = handles \cup {task_output.id}
  /\ task_calls' = IF task_output.id \notin DOMAIN task_calls
                   THEN MapPut(task_calls, task_output.id, task_output)
                   ELSE task_calls
  /\ UNCHANGED <<runvars, pc, outcome, nruns, task_registry, wrappers, invocations, dirs,
                 apart>>

\* Workflow.__init__ and the two decorations
FactoryInit ==
  /\ NoRun
  /\ handles = {}
  /\ task_calls = EmptyMap
  /\ wrappers = FactoryDecorated
  /\ task_registry = [n \in {"f"} |-> FactoryDecorated[1]]
  /\ probe = <<>>
  /\ invocations = EmptyMap
  /\ dirs = {}
  /\ config = DictVal(<<>>)
  /\ links = EmptyMap
  /\ helper_calls = <<>>

\* every handle comes from a factory, so each dependency is a known task and the
\* loop is never left with nothing in flight and tasks remaining
FactoryNext ==
  \/ \E i \in DOMAIN wrappers, a \in FactoryArgs(Range(probe)) : wrapper_call(i, a, <<>>)
  \/ \E k \in DOMAIN probe : RunStart(probe[k])
  \/ LoopScan
  \/ \E t \in ready_to_submit : Submit(t)
  \/ \E D \in SUBSET Finished : Wait(D)
  \/ \E t \in done : Process(t)
  \/ Finish
  \/ \E t \in DOMAIN futures : WorkerStart(t)
  \/ \E t \in DOMAIN futures, v \in Values : WorkerReturn(t, v)
  \/ \E t \in DOMAIN futures : WorkerRaise(t)

FactorySpec == FactoryInit /\ [][FactoryNext]_vars

\* ---------------------------------------------------------------- properties
\* the run(h) call has passed the reset and the scheduling is on or over
Scheduled == outcome.kind \in {"none", "returned", "WorkflowFailure"} /\ nruns > 0

\* the scheduling loop of a run(h) call has been left
Exited == Scheduled /\ required_tasks # {} /\ pc \in {"end", "idle"}

RECURSIVE Closure(_, _, _)
Closure(rel, frontier, seen) ==
  IF frontier \subseteq seen THEN seen
  ELSE Closure(rel, UNION {IF x \in DOMAIN rel THEN rel[x] ELSE {} : x \in frontier},
               seen \cup frontier)

\* every task depending on t, directly or through others (the dependents relation)
Descendants(t) == Closure(task_dependents, DependentsGet(t), {})

\* everything t depends on, directly or through others
Ancestors(t) == Closure(task_dependencies, DependenciesGet(t), {})

\* C1: a task goes from PENDING to RUNNING only in a step taken when every
\* fingerprint of its dependency set is COMPLETED and has a result recorded.
C1_StartsAfterDependencies ==
  [][\A t \in DOMAIN task_status :
       (/\ t \in DOMAIN task_status'
        /\ task_status[t] = "PENDING"
        /\ task_status'[t] = "RUNNING")
       => \A d \in DependenciesGet(t) :
            StatusGet(d) = "COMPLETED" /\ d \in DOMAIN task_results]_vars

\* a task with dependencies has been submitted
C1_Witness ==
  \E t \in DOMAIN task_status :
    /\ task_status[t] = "RUNNING"
    /\ Cardinality(DependenciesGet(t)) = 2

\* C2: once a task is FAILED no task depending on it, directly or through others,
\* is ever submitted, and when run has left its loop every such task is CANCELLED,
\* none is left PENDING.
C2_FailureCancelsDescendants ==
  Scheduled =>
    \A f \in DOMAIN task_status :
      task_status[f] = "FAILED" =>
        \A d \in Descendants(f) :
          /\ d \notin DOMAIN futures
          /\ pc \in {"end", "idle"} => StatusGet(d) = "CANCELLED"

\* two tasks have failed and a task depending on both of them is cancelled
C2_Witness ==
  /\ Exited
  /\ \E f1, f2 \in DOMAIN task_status :
       /\ f1 # f2
       /\ task_status[f1] = "FAILED"
       /\ task_status[f2] = "FAILED"
       /\ \E d \in Descendants(f1) \cap Descendants(f2) : StatusGet(d) = "CANCELLED"

\* C3 as stated: a run(h) call on a handle of this workflow returns normally
\* exactly when the target is COMPLETED at the end of the scheduling, and raises
\* the workflow failure in every other case.
C3_ReturnsOnlyWhenCompleted ==
  (pc = "idle" /\ Scheduled) =>
    (outcome.kind = "returned" <=> StatusGet(target_id) = "COMPLETED")

\* C3 amended: run(h) returns None without raising when the DAG built for the
\* target holds no known task; otherwise it returns normally exactly when the
\* target is COMPLETED at the end of the scheduling and raises the workflow
\* failure in every other case.
C3_ReturnsCompletedOrEmpty ==
  (pc = "idle" /\ Scheduled) =>
    IF required_tasks = {}
    THEN outcome = [kind |-> "returned", value |-> None]
    ELSE (outcome.kind = "returned" <=> StatusGet(target_id) = "COMPLETED")

\* run has raised the workflow failure with its target never submitted
C3_Witness ==
  /\ pc = "idle"
  /\ outcome.kind = "WorkflowFailure"
  /\ StatusGet(target_id) = "PENDING"

\* C4 as stated: when run(h) returns normally the value is the one the target's
\* user function returned in this run, the target's entry of the result map.
C4_ReturnsTargetResult ==
  (pc = "idle" /\ outcome.kind = "returned") =>
    /\ target_id \in DOMAIN futures
    /\ futures[target_id].ok
    /\ outcome.value = futures[target_id].result
    /\ target_id \in DOMAIN task_results
    /\ outcome.value = task_results[target_id]

\* C4 amended: when run(h) returns normally after scheduling a non-empty DAG the
\* value is the one the target's user function returned in this run, the target's
\* entry of the result map; with an empty DAG it returns None and nothing ran.
C4_ReturnsTargetResultOrNone ==
  (pc = "idle" /\ outcome.kind = "returned") =>
    IF required_tasks = {}
    THEN outcome.value = None /\ futures = EmptyMap
    ELSE /\ target_id \in DOMAIN futures
         /\ futures[target_id].ok
         /\ outcome.value = futures[target_id].result
         /\ target_id \in DOMAIN task_results
         /\ outcome.value = task_results[target_id]

\* run has returned the target's value while a dependency returned another value
C4_Witness ==
  /\ pc = "idle"
  /\ outcome.kind = "returned"
  /\ target_id \in DOMAIN task_results
  /\ \E d \in DependenciesGet(target_id) :
       d \in DOMAIN task_results /\ task_results[d] # task_results[target_id]

\* C5: the arguments handed to the pool hold no handle: every handle among the
\* positional arguments and keyword values, or inside a list of either, has been
\* replaced by the result recorded for it.
C5_HandlesReplaced ==
  \A t \in DOMAIN futures :
    /\ \A i \in DOMAIN futures[t].args :
         /\ futures[t].args[i].kind = "value"
         /\ \E d \in ArgDependencies(task_calls[t].call_args[i]) :
              futures[t].args[i].ref = task_results[d]
    /\ \A i \in DOMAIN futures[t].kwargs :
         /\ futures[t].kwargs[i].value.kind = "value"
         /\ \E d \in ArgDependencies(task_calls[t].call_kwargs[i].value) :
              futures[t].kwargs[i].value.ref = task_results[d]

C7_CancelledOnlyUnderFailure ==
  /\ [](Scheduled =>
          \A t \in DOMAIN task_status :
            task_status[t] = "CANCELLED" =>
              \E a \in Ancestors(t) : StatusGet(a) = "FAILED")
  /\ [][\A t \in DOMAIN task_status :
          (/\ t \in DOMAIN task_status'
           /\ task_status'[t] = "CANCELLED"
           /\ task_status[t] # "CANCELLED")
          => task_status[t] = "PENDING"]_vars

\* a task is cancelled while a task that depends on no failed task is still PENDING
C7_Witness ==
  /\ pc # "idle"
  /\ \E t, x \in DOMAIN task_status :
       /\ task_status[t] = "CANCELLED"
       /\ task_status[x] = "PENDING"

AllowedTransitions ==
  {<<"PENDING", "RUNNING">>, <<"RUNNING", "COMPLETED">>, <<"RUNNING", "FAILED">>,
   <<"PENDING", "CANCELLED">>}

\* C8: within one run a status changes only PENDING -> RUNNING, RUNNING ->
\* COMPLETED, RUNNING -> FAILED or PENDING -> CANCELLED, and no status is dropped.
C8_OnlyLifecycleTransitions ==
  [][nruns' = nruns =>
       \A t \in DOMAIN task_status :
         /\ t \in DOMAIN task_status'
         /\ task_status'[t] # task_status[t] =>
              <<task_status[t], task_status'[t]>> \in AllowedTransitions]_vars

\* the three terminal statuses have all been reached in one run
C8_Witness ==
  /\ \E t \in DOMAIN task_status : task_status[t] = "COMPLETED"
  /\ \E t \in DOMAIN task_status : task_status[t] = "FAILED"
  /\ \E t \in DOMAIN task_status : task_status[t] = "CANCELLED"

\* C9: within one run each fingerprint is submitted to the pool at most once.
C9_SubmittedAtMostOnce ==
  /\ \A t \in DOMAIN futures : futures[t].nsub = 1
  /\ \A t \in DOMAIN task_status :
       task_status[t] \in {"RUNNING", "COMPLETED", "FAILED"} <=> t \in DOMAIN futures

\* a task two others depend on has run once and both dependents were submitted
C9_Witness ==
  \E t \in DOMAIN futures :
    /\ futures[t].nsub = 1
    /\ Cardinality(DependentsGet(t) \cap DOMAIN futures) = 2

\* the known handles reachable from target through the dependencies of known handles
KnownReach(calls, target) ==
  IF target \in DOMAIN calls
  THEN Closure([h \in DOMAIN calls |-> get_dependencies(calls[h]) \cap DOMAIN calls],
               {target}, {})
  ELSE {}

\* C10: the DAG built for a target gives a status to exactly the known handles
\* reachable from it through dependencies, and no other fingerprint is submitted.
C10_StatusIsReachableSet ==
  /\ [][(nruns' = nruns + 1 /\ outcome'.kind \in {"none", "returned"})
          => DOMAIN task_status' = KnownReach(task_calls, target_id')]_vars
  /\ [](pc # "idle" =>
          /\ DOMAIN task_status = KnownReach(task_calls, target_id)
          /\ DOMAIN futures \subseteq DOMAIN task_status)

\* a run is under way with a recorded handle the target does not reach
C10_Witness ==
  /\ pc # "idle"
  /\ futures # EmptyMap
  /\ Cardinality(DOMAIN task_status) >= 2
  /\ \E h \in DOMAIN task_calls : h \notin DOMAIN task_status

\* C11: with every submitted invocation finishing in the end, every call of run
\* leaves its scheduling loop and returns or raises: the driver never waits forever.
C11_RunTerminates == (pc # "idle") ~> (pc = "idle")

\* the loop was left with nothing in flight and a required task never submitted
C11_Witness ==
  /\ pc = "end"
  /\ active_futures = {}
  /\ \E t \in required_tasks \ tasks_failed : StatusGet(t) = "PENDING"
  /\ tasks_completed # {}

C13_RunStartsFresh ==
  /\ [][(nruns' = nruns + 1 /\ outcome'.kind \in {"none", "returned"}) =>
          /\ task_results' = EmptyMap
          /\ \A t \in DOMAIN task_status' : task_status'[t] = "PENDING"
          /\ DOMAIN task_dependencies' = DOMAIN task_status'
          /\ \A d \in DOMAIN task_dependents' :
               task_dependents'[d] \subseteq DOMAIN task_status']_vars
  /\ [](\A t \in DOMAIN task_results :
          /\ t \in DOMAIN futures
          /\ futures[t].ok
          /\ futures[t].result = task_results[t])

\* the second call of run has executed a DAG of several tasks and returned
C13_Witness ==
  /\ nruns = 2
  /\ pc = "idle"
  /\ outcome.kind = "returned"
  /\ Cardinality(required_tasks) >= 2
  /\ required_tasks \subseteq DOMAIN futures

\* C14: run called with a handle of another workflow raises ValueError and does
\* nothing else: nothing is submitted and the result, status, dependency and
\* dependent maps stay as the previous run left them.
C14_ForeignHandleRaises ==
  [][\A id \in handles :
       RunStart([workflow |-> "other", id |-> id]) =>
         /\ outcome'.kind = "ValueError"
         /\ pc' = "idle"
         /\ UNCHANGED <<task_results, task_status, task_dependencies, task_dependents,
                        futures, active_futures, task_calls>>]_vars

\* run has raised ValueError with the results of the previous run still recorded
C14_Witness ==
  /\ outcome.kind = "ValueError"
  /\ nruns = 2
  /\ task_results # EmptyMap
  /\ \E t \in DOMAIN task_status : task_status[t] # "COMPLETED"

C16_FingerprintSensitive ==
  Len(probe) = 2 =>
    LET x == probe[1].handle
        y == probe[2].handle
    IN (\/ x.task_func.name # y.task_func.name
        \/ x.call_args # y.call_args
        \/ x.call_kwargs # y.call_kwargs)
       => x.id # y.id

\* the positional arguments and the keyword-argument values of a handle
TopLevel(h) ==
  {h.call_args[i] : i \in DOMAIN h.call_args}
  \cup {h.call_kwargs[i].value : i \in DOMAIN h.call_kwargs}

\* the members of the lists and tuples among the arguments of a handle
OneLevelDown(h) ==
  UNION {Range(c.items) : c \in {v \in TopLevel(h) : v.kind \in {"list", "tuple"}}}

\* C17: get_dependencies gives the set of fingerprints of the handles that are a
\* positional argument, a keyword-argument value, or an element of a list or tuple
\* that is one; handles deeper or inside a dict are left out, duplicates count once.
C17_DependenciesOneLevel ==
  \A n \in DOMAIN probe :
    probe[n].deps =
      {v.ref : v \in {a \in TopLevel(probe[n].handle) \cup OneLevelDown(probe[n].handle) :
                        a.kind = "handle"}}

\* one handle has the same handle twice in a list and another handle as a keyword
\* value; the other has a handle inside a dict or a list of lists, left out
C17_Witness ==
  /\ Len(probe) = 2
  /\ \E a \in Range(probe[1].handle.call_args) :
       /\ a.kind \in {"list", "tuple"}
       /\ Len(a.items) = 2
       /\ a.items[1] = a.items[2]
       /\ a.items[1].kind = "handle"
  /\ Cardinality(probe[1].deps) = 2
  /\ \E a \in Range(probe[2].handle.call_args) :
       \/ /\ a.kind = "dict"
          /\ a.items[1].value.kind = "handle"
          /\ a.items[1].value.ref \notin probe[2].deps
       \/ /\ a.kind = "list"
          /\ Len(a.items) = 1
          /\ a.items[1].kind = "list"
          /\ a.items[1].items[1].ref \notin probe[2].deps

\* the first function decorated under a name
FirstDecorated(n) ==
  wrappers[CHOOSE i \in DOMAIN wrappers :
             /\ wrappers[i].name = n
             /\ \A j \in DOMAIN wrappers : wrappers[j].name = n => i <= j]

\* C18: decorating a function whose name the registry already holds does not raise
\* and leaves the registry as it is; after any sequence of decorations the registry
\* holds one entry for each function name decorated, the first function of that name.
C18_RegistrationIdempotent ==
  /\ [](/\ DOMAIN task_registry = {wrappers[i].name : i \in DOMAIN wrappers}
        /\ \A n \in DOMAIN task_registry : task_registry[n] = FirstDecorated(n))
  /\ [](Len(wrappers) < MaxWrappers => \A func \in ProbeFuncs : ENABLED task(func))
  /\ [][\A func \in ProbeFuncs :
          (task(func) /\ func.name \in DOMAIN task_registry)
            => task_registry' = task_registry]_vars

\* two functions of one name were decorated one after the other, and another name
\* twice: the registry holds the first function of each name
C18_Witness ==
  /\ Cardinality(DOMAIN task_registry) = 2
  /\ Len(wrappers) = 4
  /\ \E i, j \in DOMAIN wrappers :
       /\ i < j
       /\ wrappers[i].name = wrappers[j].name
       /\ wrappers[i] # wrappers[j]
       /\ task_registry[wrappers[i].name] = wrappers[i]

\* C19: the directory handed to a task is <root>/<function name>/<fingerprint>, it
\* exists when the user function is called, and two tasks with different
\* fingerprints never get the same directory.
C19_OwnDirectoryBeforeCall ==
  /\ \A t \in DOMAIN invocations :
       /\ invocations[t].work_dir = work_root \o <<invocations[t].func_name, t>>
       /\ invocations[t].at = "called" => abspath(invocations[t].work_dir) \in dirs
  /\ \A t, u \in DOMAIN invocations :
       t # u => invocations[t].work_dir # invocations[u].work_dir

\* two tasks of the same function are in their user functions, each with its directory
C19_Witness ==
  \E t, u \in DOMAIN invocations :
    /\ t # u
    /\ invocations[t].func_name = invocations[u].func_name
    /\ invocations[t].at = "called"
    /\ invocations[u].at = "called"
    /\ {invocations[t].work_dir, invocations[u].work_dir} \subseteq dirs

\* the user function of the call was entered
WasCalled(t) ==
  \/ invocations[t].at = "called"
  \/ invocations[t].at = "finished" /\ invocations[t].delivered # Raised("OSError", FALSE)

\* C20: the user function is called with the positional arguments as given and with
\* the keyword arguments as given, except that task_work_dir is bound to the absolute
\* directory of the task when the function declares it, and config to the
\* configuration of the workflow when the function declares it.
C20_ReservedNamesInjected ==
  \A t \in DOMAIN invocations :
    WasCalled(t) =>
      LET call == invocations[t]
          bound == call.parameters \cap ReservedNames
      IN /\ call.received.args = call.args
         /\ DOMAIN call.received.kwargs = (DOMAIN call.kwargs) \cup bound
         /\ \A k \in DOMAIN call.received.kwargs :
              call.received.kwargs[k] =
                IF k = "task_work_dir" /\ k \in bound THEN PathVal(work_root \o <<call.func_name, t>>)
                ELSE IF k = "config" /\ k \in bound THEN call.config
                ELSE call.kwargs[k]

\* a function that declares task_work_dir alone was called with a keyword argument
\* named config, which it got as given, and another declares neither name
C20_Witness ==
  /\ \E t \in DOMAIN invocations :
       /\ invocations[t].at = "called"
       /\ invocations[t].parameters = {"task_work_dir"}
       /\ "config" \in DOMAIN invocations[t].kwargs
       /\ invocations[t].received.kwargs["config"] = invocations[t].kwargs["config"]
       /\ "task_work_dir" \in DOMAIN invocations[t].received.kwargs
  /\ \E t \in DOMAIN invocations :
       /\ invocations[t].at = "called"
       /\ invocations[t].parameters = {}
       /\ invocations[t].received.kwargs = invocations[t].kwargs

\* C21: every failure inside a worker invocation reaches the scheduler as the
\* RuntimeError that carries the traceback formatted in the worker.
C21_FailuresWrapped ==
  \A t \in DOMAIN invocations :
    invocations[t].delivered.kind = "error" =>
      invocations[t].delivered = Raised("RuntimeError", TRUE)

\* C22: what a user function writes into its config argument changes neither the
\* configuration of the driver nor the one handed to any task of the run: during a
\* run every call holds the driver's configuration, and every user function that
\* declares config was called with it.
C22_ConfigWritesStayInWorker ==
  pc = "loop" =>
    \A t \in DOMAIN invocations :
      /\ invocations[t].config = config
      /\ (WasCalled(t) /\ "config" \in invocations[t].parameters) =>
           invocations[t].received.kwargs["config"] = config

\* one user function has written into its mapping and another, which declares
\* config, is in its body with the configuration of the driver
C22_Witness ==
  /\ pc = "loop"
  /\ \E t, u \in DOMAIN invocations :
       /\ t # u
       /\ invocations[t].mapping = Written(config)
       /\ invocations[u].at = "called"
       /\ "config" \in invocations[u].parameters
       /\ invocations[u].received.kwargs["config"] = config
       /\ invocations[u].mapping = config

\* nothing is left at or under the root
RootGone == \A d \in dirs : ~Under(d, work_root)

\* C25: cleanup never raises; when the removal goes through, the root and every
\* directory under it are gone; a run started afterwards has its root, and every
\* task of it that is in its user function has its directory.
C25_CleanupThenRunRecreates ==
  /\ [][/\ cleanup(TRUE) => RootGone'
        /\ (\E removed \in BOOLEAN : cleanup(removed)) => outcome'.kind = "cleaned"]_vars
  /\ [](outcome.kind # "OSError")
  /\ [](pc = "loop" =>
          /\ work_root \in dirs
          /\ \A t \in DOMAIN invocations :
               invocations[t].at = "called" => invocations[t].work_dir \in dirs)

\* cleanup has removed the tree of an earlier run, and a task of a later run is in
\* its user function with its directory in place
C25_Witness ==
  /\ outcome = [kind |-> "cleaned", value |-> "removed"]
  /\ pc = "loop"
  /\ \E t \in DOMAIN invocations :
       /\ invocations[t].at = "called"
       /\ invocations[t].work_dir \in dirs
       /\ \A d \in dirs : Under(d, work_root) => Under(invocations[t].work_dir, d)

\* the source of the call lies in the directory the link was to be put in
SourceInside(call) ==
  LET abs_source_path == abspath(PathOf(call.source_path.val))
      abs_link_dir == abspath(PathOf(call.link_dir))
  IN Under(abs_source_path, abs_link_dir) /\ abs_source_path # abs_link_dir

\* the link of the call is there and points to the absolute path of its source
SourceLinked(call) ==
  /\ call.source_path.kind = "str"
  /\ LET name == link_name(call.source_path.val, call.link_dir, call.link_prefix)
     IN /\ name \in DOMAIN links
        /\ links[name] = abspath(PathOf(call.source_path.val))

\* C23: after _create_input_symlink(path, d, prefix) the link <prefix>_<safe
\* basename> in d points to the absolute source exactly when path is a string that
\* names an existing entry which does not lie inside d.
C23_LinkedIffExistingOutside ==
  \A i \in DOMAIN helper_calls :
    helper_calls[i].func = "_create_input_symlink" =>
      (SourceLinked(helper_calls[i])
         <=> (helper_calls[i].existed /\ ~SourceInside(helper_calls[i])))

\* C24: run_shell returns the captured standard output when the command exits with
\* status zero and raises the failure that carries the return code and both captured
\* streams when it exits with another status; the command is executed whether or not
\* the command log could be written, and ends the same way.
C24_ShellResultByStatus ==
  \A i \in DOMAIN helper_calls :
    helper_calls[i].func = "run_shell" =>
      LET call == helper_calls[i] IN
      /\ call.ended.executed <=> ~call.cwd_fails
      /\ (call.ended.executed /\ call.command.returncode = 0) =>
           /\ call.ended.kind = "returned"
           /\ call.ended.stdout = call.command.stdout
      /\ (call.ended.executed /\ call.command.returncode # 0) =>
           /\ call.ended.kind = "CalledProcessError"
           /\ call.ended.returncode = call.command.returncode
           /\ call.ended.stdout = call.command.stdout
           /\ call.ended.stderr = call.command.stderr

\* the command log could not be written, and the command ran, exited with status
\* zero and its output was returned
C24_Witness ==
  \E i \in DOMAIN helper_calls :
    /\ helper_calls[i].func = "run_shell"
    /\ helper_calls[i].log_fails
    /\ helper_calls[i].command.returncode = 0
    /\ helper_calls[i].ended.kind = "returned"
    /\ helper_calls[i].ended.stdout = "out"

\* C26: within a run a task leaves RUNNING only when the driver processes its own
\* finished future, to COMPLETED with the result of that future recorded or to
\* FAILED when the future holds an error; no task is RUNNING between two runs.
C26_RunningNotPreempted ==
  /\ [][nruns' = nruns =>
          \A t \in DOMAIN task_status :
            (task_status[t] = "RUNNING" /\ task_status'[t] # "RUNNING") =>
              /\ pc = "process"
              /\ t \in done /\ t \notin done'
              /\ futures[t].state = "FINISHED"
              /\ IF futures[t].ok
                 THEN /\ task_status'[t] = "COMPLETED"
                      /\ t \in DOMAIN task_results'
                      /\ task_results'[t] = futures[t].result
                 ELSE task_status'[t] = "FAILED"]_vars
  /\ [](pc = "idle" => \A t \in DOMAIN task_status : task_status[t] # "RUNNING")

\* the failure of a task has been processed while another task, submitted with it,
\* is still RUNNING
C26_Witness ==
  /\ pc \in {"loop", "wait"}
  /\ \E f, r \in DOMAIN task_status :
       /\ task_status[f] = "FAILED"
       /\ task_status[r] = "RUNNING"
       /\ r \in active_futures

\* C27: when the driver is at the wait with futures in flight, every task the last
\* scan found ready has gone through the submission loop, and no required task is
\* PENDING with all its dependencies in the result map.
C27_ReadySubmittedBeforeWait ==
  (pc = "wait" /\ active_futures # {}) =>
    /\ ready_to_submit = {}
    /\ \A t \in required_tasks :
         ~(/\ StatusGet(t) = "PENDING"
           /\ \A d \in DependenciesGet(t) : d \in DOMAIN task_results)

\* the driver waits on two tasks submitted after one scan while a third is PENDING
C27_Witness ==
  /\ pc = "wait"
  /\ Cardinality(active_futures) >= 2
  /\ \A t \in active_futures : t \notin DOMAIN task_results
  /\ \E t \in required_tasks : StatusGet(t) = "PENDING"

\* tasks remain and nothing is in flight
Stalled ==
  /\ active_futures = {}
  /\ Cardinality(tasks_completed) + Cardinality(tasks_failed) < Cardinality(required_tasks)

\* C28: when nothing is in flight after the submission phase while required tasks
\* remain, the driver goes to the end of the loop without waiting and without
\* changing a status, the target is not COMPLETED, and run raises the workflow
\* failure.
C28_StalledRunFails ==
  /\ [](pc = "wait" /\ active_futures = {} => Stalled)
  /\ [][(pc = "wait" /\ Stalled) => (pc' = "end" /\ UNCHANGED runvars)]_vars
  /\ []((pc = "end" /\ Stalled) => StatusGet(target_id) # "COMPLETED")
  /\ [][(pc = "end" /\ Stalled) =>
          (pc' = "idle" /\ outcome'.kind = "WorkflowFailure")]_vars

\* run has raised although no task failed: a task was left PENDING
C28_Witness ==
  /\ pc = "idle"
  /\ outcome.kind = "WorkflowFailure"
  /\ tasks_failed = {}
  /\ tasks_completed # {}
  /\ \E t \in required_tasks : StatusGet(t) = "PENDING"

\* C29: for every task h with recorded dependencies and every d among them, h is
\* in the dependents recorded for d, whether d is a known task or not.
C29_DependentsMirrorDependencies ==
  \A h \in DOMAIN task_dependencies :
    \A d \in task_dependencies[h] :
      d \in DOMAIN task_dependents /\ h \in task_dependents[d]

\* the DAG holds an edge to a known task and an edge to a fingerprint that no
\* recorded call has, both with their reverse edge
C29_Witness ==
  /\ \E h \in DOMAIN task_dependencies :
       \E d \in task_dependencies[h] :
         d \notin DOMAIN task_calls /\ h \in DependentsGet(d)
  /\ \E h \in DOMAIN task_dependencies :
       \E d \in task_dependencies[h] :
         d \in DOMAIN task_calls /\ h \in DependentsGet(d)

\* C30: for every task with a recorded status, each of its dependencies has a
\* recorded status or a warning about it was printed during the build.
C30_ClosedOrWarned ==
  \A h \in DOMAIN task_status :
    \A d \in DependenciesGet(h) :
      d \in DOMAIN task_status \/ d \in build_dag_warnings

\* t has a dependency that no recorded call has
UnknownEdge(t) == \E d \in DependenciesGet(t) : d \notin DOMAIN task_calls

\* C31: a required task with an unknown-dependency edge has failed when the loop
\* has been left: its status is FAILED and it is counted in the failed set.
C31_UnknownEdgeFails ==
  Exited =>
    \A t \in required_tasks :
      UnknownEdge(t) => (StatusGet(t) = "FAILED" /\ t \in tasks_failed)

FirstHandle(id) == probe[CHOOSE k \in DOMAIN probe : probe[k].id = id /\ \A j \in 1..(k - 1) : probe[j].id # id]

\* C33: a call of a handle factory runs no user code and changes no per-run state:
\* the handle is added to the invocation table only when its fingerprint is absent,
\* an existing entry is never replaced, and the result, status, dependency and
\* dependent maps stay as they are.
C33_FactoryFrame ==
  /\ [][probe' # probe =>
          LET h == probe'[Len(probe')] IN
          /\ probe' = Append(probe, h)
          /\ task_calls' = IF h.id \in DOMAIN task_calls THEN task_calls
                           ELSE MapPut(task_calls, h.id, h)
          /\ UNCHANGED <<runvars, pc, outcome, nruns>>]_vars
  /\ [](\A id \in DOMAIN task_calls : task_calls[id] = FirstHandle(id))
  /\ [](DOMAIN task_calls = {probe[k].id : k \in DOMAIN probe})

\* after a run that recorded a result, a factory returned a handle whose
\* fingerprint the table already held for a different handle: the entry is the
\* first handle and the maps of the run are still there
C33_Witness ==
  /\ pc = "idle"
  /\ Len(probe) = MaxHandles
  /\ LET h == probe[Len(probe)] IN
     /\ h.id \in DOMAIN task_results
     /\ task_status[h.id] = "COMPLETED"
     /\ task_calls[h.id] # h
     /\ futures[h.id].nsub = 1
     /\ \A k \in 1..(Len(probe) - 1) : probe[k].id \in DOMAIN task_results

\* a step of a worker process: the state of a future changes
WorkerStep == \E t \in DOMAIN futures \cap DOMAIN futures' : futures'[t].state # futures[t].state

\* C34: a fingerprint has a result exactly when its status is COMPLETED, the
\* completed set is the set of COMPLETED tasks and the failed set the set of FAILED
\* and CANCELLED tasks; during a run the result map and the two sets change only
\* when the driver processes a finished future, the status map only in a driver
\* step, and no map changes in the step in which a worker finishes.
C34_MapsWrittenByDriver ==
  /\ [](/\ DOMAIN task_results = {t \in DOMAIN task_status : task_status[t] = "COMPLETED"}
        /\ tasks_completed = {t \in DOMAIN task_status : task_status[t] = "COMPLETED"}
        /\ tasks_failed =
             {t \in DOMAIN task_status : task_status[t] \in {"FAILED", "CANCELLED"}})
  /\ [][(pc # "idle" /\ <<task_results, tasks_completed, tasks_failed>>' #
                          <<task_results, tasks_completed, tasks_failed>>)
          => (pc = "process" /\ \E t \in done : futures[t].state = "FINISHED")]_vars
  /\ [][(pc # "idle" /\ task_status' # task_status) => pc \in {"submit", "process"}]_vars
  /\ [][WorkerStep =>
          UNCHANGED <<task_results, task_status, tasks_completed, tasks_failed, pc>>]_vars

\* a worker has finished with a result while the driver has not processed the
\* future: the task is still RUNNING and has no entry in the result map, and
\* another task is COMPLETED with its result
C34_Witness ==
  /\ pc = "wait"
  /\ \E t \in active_futures :
       /\ futures[t].state = "FINISHED"
       /\ futures[t].ok
       /\ task_status[t] = "RUNNING"
       /\ t \notin DOMAIN task_results
  /\ \E c \in tasks_completed : c \in DOMAIN task_results

\* C35: when run has returned normally after scheduling a non-empty DAG, every
\* required task is COMPLETED and has a result; none is FAILED, CANCELLED, PENDING
\* or RUNNING.
C35_SuccessMeansAllCompleted ==
  (pc = "idle" /\ outcome.kind = "returned" /\ required_tasks # {}) =>
    /\ \A t \in required_tasks : StatusGet(t) = "COMPLETED" /\ t \in DOMAIN task_results
    /\ tasks_completed = required_tasks
    /\ tasks_failed = {}

\* run has returned the result of a target that has a dependency
C35_Witness ==
  /\ pc = "idle"
  /\ outcome.kind = "returned"
  /\ Cardinality(required_tasks) > 1
  /\ DependenciesGet(target_id) # {}
  /\ outcome.value = task_results[target_id]

\* the handles the resolution of h's arguments replaces by their results
Substituted(h) ==
  {a.ref : a \in {x \in Range(h.call_args) : x.kind = "handle"}}
  \cup {kv.value.ref : kv \in {x \in Range(h.call_kwargs) : x.value.kind = "handle"}}

\* C36: the resolution of a ready task's arguments never misses a result: every
\* handle it replaces is in the task's dependency set and every dependency has a
\* result when the task is submitted, so a task is FAILED only when its worker
\* raised, never by the submission.
C36_ResolutionNeverFails ==
  /\ pc = "submit" =>
       \A t \in ready_to_submit :
         /\ Substituted(task_calls[t]) \subseteq DependenciesGet(t)
         /\ DependenciesGet(t) \subseteq DOMAIN task_results
         /\ ~ResolveFails(task_calls[t])
  /\ \A t \in DOMAIN task_status :
       task_status[t] = "FAILED" =>
         /\ t \in DOMAIN futures
         /\ futures[t].state = "FINISHED"
         /\ ~futures[t].ok

\* a task with a handle among its arguments is about to be submitted
C36_Witness ==
  /\ pc = "submit"
  /\ \E t \in ready_to_submit : Substituted(task_calls[t]) # {}

\* C37: a required task with a dependency that is not in the invocation table is
\* never submitted and stays PENDING, every required task that depends on it stays
\* PENDING too unless the failure of another task cancels it, the loop is left
\* through the stalled branch, and run raises.
C37_UnknownEdgeStaysPending ==
  Scheduled =>
    \A t \in required_tasks :
      UnknownEdge(t) =>
        /\ t \notin DOMAIN futures
        /\ StatusGet(t) = "PENDING"
        /\ \A d \in Descendants(t) \cap required_tasks :
             \/ StatusGet(d) = "PENDING"
             \/ StatusGet(d) = "CANCELLED" /\ \E a \in Ancestors(d) : StatusGet(a) = "FAILED"
        /\ pc = "end" => Stalled
        /\ pc = "idle" => outcome.kind = "WorkflowFailure"

\* C37 amended: a required task with a dependency that is not in the invocation
\* table is never submitted, never COMPLETED and never FAILED, and neither is a
\* required task that depends on it; each of them stays PENDING unless the failure
\* of a task it depends on cancels it, the loop is left through the stalled branch
\* whenever one of them is still PENDING, and run raises.
C37_UnknownEdgeNeverSubmitted ==
  Scheduled =>
    \A t \in required_tasks :
      UnknownEdge(t) =>
        /\ \A d \in {t} \cup (Descendants(t) \cap required_tasks) :
             /\ d \notin DOMAIN futures
             /\ \/ StatusGet(d) = "PENDING" /\ d \notin tasks_failed
                \/ /\ StatusGet(d) = "CANCELLED"
                   /\ d \in tasks_failed
                   /\ \E a \in Ancestors(d) : StatusGet(a) = "FAILED"
             /\ (pc = "end" /\ StatusGet(d) = "PENDING") => Stalled
        /\ pc = "idle" => outcome.kind = "WorkflowFailure"

\* run has raised with a task left PENDING on an unknown dependency after another
\* task was executed to completion
C37_Witness ==
  /\ pc = "idle"
  /\ outcome.kind = "WorkflowFailure"
  /\ \E t \in required_tasks :
       /\ UnknownEdge(t)
       /\ StatusGet(t) = "PENDING"
       /\ \E c \in required_tasks : c # t /\ StatusGet(c) = "COMPLETED"

\* C38: the propagation of a failure changes the status of required tasks only; a
\* task is counted as completed or as failed at most once and never as both: it is
\* added to one of the two sets from a status that is not final and stays there
\* until the next run, so completed plus failed never exceeds the required tasks.
C38_CountsNeverOvershoot ==
  /\ [](/\ tasks_completed \cap tasks_failed = {}
        /\ tasks_completed \cup tasks_failed \subseteq required_tasks
        /\ Cardinality(tasks_completed) + Cardinality(tasks_failed)
             <= Cardinality(required_tasks))
  /\ [][pc # "idle" =>
          /\ tasks_completed \subseteq tasks_completed'
          /\ tasks_failed \subseteq tasks_failed'
          /\ \A t \in (tasks_completed' \cup tasks_failed') \
                       (tasks_completed \cup tasks_failed) :
               /\ t \in required_tasks
               /\ StatusGet(t) \in {"PENDING", "RUNNING"}
          /\ \A t \in DOMAIN task_status' :
               (task_status'[t] = "CANCELLED" /\ StatusGet(t) # "CANCELLED")
                 => (t \in required_tasks /\ StatusGet(t) = "PENDING")]_vars

\* the loop has been left by its condition after a failure was propagated: a task
\* completed, a task failed and a task was cancelled
C38_Witness ==
  /\ pc = "end"
  /\ tasks_completed # {}
  /\ \E t \in tasks_failed : task_status[t] = "CANCELLED"
  /\ Cardinality(tasks_completed) + Cardinality(tasks_failed) = Cardinality(required_tasks)

\* C39: the function and the arguments handed to the pool for a fingerprint are
\* those of the first handle recorded under it, whichever handle with that
\* fingerprint was passed to run or used as an argument.
C39_ExecutedAsFirstRecorded ==
  \A t \in DOMAIN futures :
    LET first == FirstHandle(t) IN
    /\ task_calls[t] = first
    /\ futures[t].func = first.task_func
    /\ Len(futures[t].args) = Len(first.call_args)
    /\ \A i \in DOMAIN first.call_args :
         IF first.call_args[i].kind = "handle"
         THEN futures[t].args[i] = [kind |-> "value", ref |-> task_results[first.call_args[i].ref]]
         ELSE futures[t].args[i] = first.call_args[i]

\* two factories returned handles of one fingerprint with different functions and
\* different arguments, and a run executed the call of the first of them
C39_Witness ==
  /\ pc = "idle"
  /\ outcome.kind = "returned"
  /\ \E j, k \in DOMAIN probe :
       /\ j < k
       /\ probe[j].id = probe[k].id
       /\ probe[j].id = target_id
       /\ probe[j].task_func # probe[k].task_func
       /\ probe[j].call_args # probe[k].call_args
       /\ futures[target_id].func = probe[j].task_func
       /\ futures[target_id].args = probe[j].call_args

\* C40: when the scheduling loop has been left, no future is in flight and no
\* required task is RUNNING: every required task is COMPLETED, FAILED or CANCELLED,
\* or is PENDING with a dependency that has no recorded result.
C40_NothingInFlightAtExit ==
  pc = "end" =>
    /\ active_futures = {}
    /\ \A t \in DOMAIN futures : futures[t].state = "FINISHED"
    /\ \A t \in required_tasks :
         \/ StatusGet(t) \in {"COMPLETED", "FAILED", "CANCELLED"}
         \/ /\ StatusGet(t) = "PENDING"
            /\ \E d \in DependenciesGet(t) : d \notin DOMAIN task_results

\* the loop has been left with the future of a completed task finished and another
\* task PENDING on a dependency without a result
C40_Witness ==
  /\ pc = "end"
  /\ \E c \in required_tasks : StatusGet(c) = "COMPLETED" /\ futures[c].state = "FINISHED"
  /\ \E t \in required_tasks :
       /\ StatusGet(t) = "PENDING"
       /\ \E d \in DependenciesGet(t) : d \notin DOMAIN task_results

====
